---- MODULE Spec2Model ----
(***************************************************************************)
(* The agent orchestration core of my-ai-ide: the Tool Router              *)
(* (packages/agent-core/src/toolRouter.ts), the Agent Loop                 *)
(* (packages/agent-core/src/agentLoop.ts, the AgentLoop class whose        *)
(* constructor is at line 155) and the Autonomous Loop                     *)
(* (packages/agent-core/src/autonomousLoop.ts).                            *)
(*                                                                         *)
(* Texts (model responses, prompts, final messages) are sequences of       *)
(* one-character strings, so that trim, toLowerCase, toUpperCase,          *)
(* includes and the regular expressions of the guards are computed         *)
(* character by character.  Capabilities and the Model Session are         *)
(* external collaborators: an action draws their outcome from a small set. *)
(***************************************************************************)
EXTENDS Integers, Sequences, FiniteSets, TLC

(***************************************************************************)
(* Bounds of the model.                                                    *)
(***************************************************************************)
\* largest configured maxIterations
MaxBudget == 3
\* largest number of tool invocations parsed during one top-level run
MaxToolCalls == 2
\* largest number of rounds of one top-level run that do not end their
\* session (tool calls and responses answered with a corrective turn)
MaxDetours == 3
\* the same, for a top-level run of the Autonomous Loop
MaxSessionDetours == 2

(***************************************************************************)
(* Program constants.                                                      *)
(***************************************************************************)
DefaultRoundBudget == 10
DefaultCycleBudget == 20
ValidationPeriod == 3
MinCompletionLength == 10

(***************************************************************************)
(* Texts: String.prototype.trim, toLowerCase, toUpperCase, includes.       *)
(***************************************************************************)
UpperCase ==
    <<"A", "B", "C", "D", "E", "F", "G", "H", "I", "J", "K", "L", "M",
      "N", "O", "P", "Q", "R", "S", "T", "U", "V", "W", "X", "Y", "Z">>
LowerCase ==
    <<"a", "b", "c", "d", "e", "f", "g", "h", "i", "j", "k", "l", "m",
      "n", "o", "p", "q", "r", "s", "t", "u", "v", "w", "x", "y", "z">>
WhiteSpace == {" ", "\n", "\t", "\r"}
LineTerminators == {"\n", "\r"}

\* the lower-case and upper-case counterparts of the letters
LowerOf ==
    [c \in {UpperCase[i] : i \in 1..26} |->
        LowerCase[CHOOSE i \in 1..26 : UpperCase[i] = c]]
UpperOf ==
    [c \in {LowerCase[i] : i \in 1..26} |->
        UpperCase[CHOOSE i \in 1..26 : LowerCase[i] = c]]
ToLowerChar(c) == IF c \in DOMAIN LowerOf THEN LowerOf[c] ELSE c
ToUpperChar(c) == IF c \in DOMAIN UpperOf THEN UpperOf[c] ELSE c
toLowerCase(s) == [i \in 1..Len(s) |-> ToLowerChar(s[i])]
toUpperCase(s) == [i \in 1..Len(s) |-> ToUpperChar(s[i])]

MatchAt(s, sub, i) ==
    /\ i >= 1
    /\ i + Len(sub) - 1 <= Len(s)
    /\ \A k \in 1..Len(sub) : s[i + k - 1] = sub[k]
includes(s, sub) ==
    \E text \in {s}, searched \in {sub} :
        \E i \in 1..(Len(text) - Len(searched) + 1) :
            MatchAt(text, searched, i)

RECURSIVE trimStart(_)
trimStart(s) ==
    IF s # <<>> /\ Head(s) \in WhiteSpace THEN trimStart(Tail(s)) ELSE s
RECURSIVE trimEnd(_)
trimEnd(s) ==
    IF s # <<>> /\ s[Len(s)] \in WhiteSpace
    THEN trimEnd(SubSeq(s, 1, Len(s) - 1))
    ELSE s
\* a trim that removes nothing
trimNothing(s) == s

\* String.prototype.trim
trim(s) == trimEnd(trimStart(s))

(***************************************************************************)
(* JavaScript values that cross the interfaces: tool names and argument    *)
(* mappings parsed from model text, capability results, thrown values.     *)
(***************************************************************************)
Undefined == [type |-> "undefined"]
Str(s) == [type |-> "string", str |-> s]
\* a plain object; props lists its own properties
Obj(props) == [type |-> "object", props |-> props]
\* an object whose own toString property is not callable: {"toString": 1}
Unprintable == [type |-> "object", props |-> <<"toString">>]
\* an object JSON.stringify rejects (a cycle, a BigInt)
Cyclic == [type |-> "cyclic"]

\* ToBoolean
Truthy(v) ==
    /\ v.type # "undefined"
    /\ ~(v.type = "string" /\ v.str = "")
    /\ ~(v.type = "number" /\ v.num = 0)
\* whether `${v}` yields a string; it throws a TypeError otherwise
Printable(v) ==
    \/ v.type \in {"undefined", "string"}
    \/ v.type = "object" /\ \A i \in 1..Len(v.props) : v.props[i] # "toString"
\* 'key' in v, behind the guard (v && typeof v === 'object')
HasProp(v, key) ==
    /\ v.type = "object"
    /\ \E i \in 1..Len(v.props) : v.props[i] = key

(***************************************************************************)
(* Model responses.  A response is its text together with what the four    *)
(* extraction attempts of parseToolCall find in it: the outcome of         *)
(* JSON.parse on the trimmed text, on the first ```json block, on the      *)
(* first ``` block and on the widest {..."tool"..."args"...} match.  A     *)
(* candidate is absent (the pattern does not match), malformed (JSON.parse *)
(* or the property access throws) or a parsed value with its tool and args *)
(* properties.                                                             *)
(***************************************************************************)
NoMatch == [kind |-> "nomatch"]
Malformed == [kind |-> "malformed"]
Parsed(tool, args) == [kind |-> "value", tool |-> tool, args |-> args]

Response(text, plain, jsonCodeBlock, codeBlock, jsonObject) ==
    [text |-> text, plain |-> plain, jsonCodeBlockMatch |-> jsonCodeBlock,
     codeBlockMatch |-> codeBlock, jsonObjectMatch |-> jsonObject]

\* a bare structured object: every later form would find the same object
BareCall(text, tool, args) ==
    Response(text, Parsed(tool, args), NoMatch, NoMatch, Parsed(tool, args))
\* prose: JSON.parse throws and no pattern matches
Prose(text) == Response(text, Malformed, NoMatch, NoMatch, NoMatch)

RespWriteFile ==
    BareCall(
        <<"{", "\"", "t", "o", "o", "l", "\"", ":", "\"", "w", "r", "i",
          "t", "e", "_", "f", "i", "l", "e", "\"", ",", "\"", "a", "r",
          "g", "s", "\"", ":", "{", "\"", "p", "a", "t", "h", "\"", ":",
          "\"", "X", "\"", "}", "}">>,
        Str("write_file"), Obj(<<"path">>))
RespListFiles ==
    BareCall(
        <<"{", "\"", "t", "o", "o", "l", "\"", ":", "\"", "l", "i", "s",
          "t", "_", "f", "i", "l", "e", "s", "\"", ",", "\"", "a", "r",
          "g", "s", "\"", ":", "{", "}", "}">>,
        Str("list_files"), Obj(<<>>))
RespServerStop ==
    BareCall(
        <<"{", "\"", "t", "o", "o", "l", "\"", ":", "\"", "s", "e", "r",
          "v", "e", "r", ".", "s", "t", "o", "p", "\"", ",", "\"", "a",
          "r", "g", "s", "\"", ":", "{", "\"", "p", "i", "d", "\"", ":",
          "1", "0", "1", "}", "}">>,
        Str("server.stop"), Obj(<<"pid">>))
RespNoSuchTool ==
    BareCall(
        <<"{", "\"", "t", "o", "o", "l", "\"", ":", "\"", "n", "o", "_",
          "s", "u", "c", "h", "_", "t", "o", "o", "l", "\"", ",", "\"",
          "a", "r", "g", "s", "\"", ":", "{", "}", "}">>,
        Str("no_such_tool"), Obj(<<>>))
\* an invocation whose tool property is an object
RespObjectName ==
    BareCall(
        <<"{", "\"", "t", "o", "o", "l", "\"", ":", "{", "\"", "i", "d",
          "\"", ":", "7", "}", ",", "\"", "a", "r", "g", "s", "\"", ":",
          "{", "}", "}">>,
        Obj(<<"id">>), Obj(<<>>))
RespUnprintable ==
    BareCall(
        <<"{", "\"", "t", "o", "o", "l", "\"", ":", "{", "\"", "t", "o",
          "S", "t", "r", "i", "n", "g", "\"", ":", "1", "}", ",", "\"",
          "a", "r", "g", "s", "\"", ":", "{", "}", "}">>,
        Unprintable, Obj(<<>>))
ToolCallResponses ==
    {RespWriteFile, RespListFiles, RespServerStop, RespNoSuchTool,
     RespObjectName, RespUnprintable}

TxtEmpty == <<>>
TxtBlank == <<" ", "\n">>
TxtOk == <<"o", "k">>
TxtAnnounce ==
    <<"I", " ", "w", "i", "l", "l", " ", "d", "e", "l", "e", "t", "e",
      " ", "i", "t">>
TxtDone == <<"D", "o", "n", "e", ".">>
TxtCreated ==
    <<"F", "i", "l", "e", " ", "c", "r", "e", "a", "t", "e", "d", ".">>
TxtComplete ==
    <<"T", "a", "s", "k", " ", "C", "O", "M", "P", "L", "E", "T", "E">>
TxtUnfinished ==
    <<"U", "n", "f", "i", "n", "i", "s", "h", "e", "d">>
TxtYes == <<"Y", "e", "s">>
TxtNow == <<"I", "'", "l", "l", " ", "n", "o", "w">>
TextResponses ==
    {Prose(t) : t \in {TxtEmpty, TxtBlank, TxtOk, TxtAnnounce, TxtDone,
                       TxtCreated, TxtComplete, TxtUnfinished, TxtYes,
                       TxtNow}}
(***************************************************************************)
(* The extraction attempts of parseToolCall, computed from the text.       *)
(* JSON.parse is tabulated: it yields the parsed value for the documents   *)
(* of JsonDocuments and throws for every other text; the texts composed    *)
(* below contain no other text that JSON.parse accepts as an object.       *)
(***************************************************************************)
\* the first index at or after `from` where sub occurs in s, or 0
IndexOf(s, sub, from) ==
    LET hits == {i \in from..Len(s) : MatchAt(s, sub, i)}
    IN IF hits = {} THEN 0 ELSE CHOOSE i \in hits : \A j \in hits : i <= j
\* the last index where sub occurs in s, or 0
LastIndexOf(s, sub) ==
    LET hits == {i \in 1..Len(s) : MatchAt(s, sub, i)}
    IN IF hits = {} THEN 0 ELSE CHOOSE i \in hits : \A j \in hits : i >= j

\* the character U+0060, which a string of the specification language
\* cannot hold
Backtick == "U+0060"
Fence == <<Backtick, Backtick, Backtick>>
JsonFence == Fence \o <<"j", "s", "o", "n">>
ToolKey == <<"\"", "t", "o", "o", "l", "\"">>
ArgsKey == <<"\"", "a", "r", "g", "s", "\"">>

\* {"tool":"write_file"}: an object that names a tool and has no args
LacksArgsText ==
    <<"{", "\"", "t", "o", "o", "l", "\"", ":", "\"", "w", "r", "i", "t",
      "e", "_", "f", "i", "l", "e", "\"", "}">>
\* {"args":{},"tool":"list_files"}: the args property written first
ArgsFirstText ==
    <<"{", "\"", "a", "r", "g", "s", "\"", ":", "{", "}", ",", "\"", "t",
      "o", "o", "l", "\"", ":", "\"", "l", "i", "s", "t", "_", "f", "i",
      "l", "e", "s", "\"", "}">>

JsonDocuments ==
    {[text |-> r.text, value |-> r.plain] : r \in ToolCallResponses}
    \cup {[text |-> LacksArgsText,
           value |-> Parsed(Str("write_file"), Undefined)],
          [text |-> ArgsFirstText,
           value |-> Parsed(Str("list_files"), Obj(<<>>))]}

\* JSON.parse(text), then the tool and args properties of the value
JsonParse(text) ==
    IF \E d \in JsonDocuments : d.text = text
    THEN (CHOOSE d \in JsonDocuments : d.text = text).value
    ELSE Malformed

\* /```json\s*\n?([\s\S]*?)\n?```/ and /```\s*\n?([\s\S]*?)\n?```/: the
\* text between the first opening fence and the first fence after it,
\* trimmed and parsed
MatchCodeBlock(text, opening) ==
    LET i == IndexOf(text, opening, 1)
        j == IF i = 0 THEN 0 ELSE IndexOf(text, Fence, i + Len(opening))
    IN IF j = 0 THEN NoMatch
       ELSE JsonParse(trim(SubSeq(text, i + Len(opening), j - 1)))

\* /\{[\s\S]*"tool"[\s\S]*"args"[\s\S]*\}/: from the first brace that is
\* followed by "tool", then "args", then a closing brace, to the last
\* closing brace of the text; match[0] is parsed as it is
MatchJsonObject(text) ==
    LET open == IndexOf(text, <<"{">>, 1)
        tool == IF open = 0 THEN 0 ELSE IndexOf(text, ToolKey, open + 1)
        args == IF tool = 0 THEN 0
                ELSE IndexOf(text, ArgsKey, tool + Len(ToolKey))
        close == LastIndexOf(text, <<"}">>)
    IN IF args = 0 \/ close < args + Len(ArgsKey) THEN NoMatch
       ELSE JsonParse(SubSeq(text, open, close))

\* the response with the given text
Recognise(text) ==
    Response(text, JsonParse(trim(text)), MatchCodeBlock(text, JsonFence),
             MatchCodeBlock(text, Fence), MatchJsonObject(text))

\* an object that names a tool and lacks the argument mapping: JSON.parse
\* accepts it, and no pattern matches a text without fence and "args"
RespLacksArgs ==
    Response(LacksArgsText, Parsed(Str("write_file"), Undefined), NoMatch,
             NoMatch, NoMatch)

\* what the model may send
Responses == ToolCallResponses \cup TextResponses \cup {RespLacksArgs}
\* the responses drawn in the sessions an Autonomous Loop runs: in the
\* session of a cycle, and in the inspection and judging sessions
CycleResponses ==
    {RespServerStop, RespUnprintable}
    \cup {Prose(t) : t \in {TxtEmpty, TxtAnnounce, TxtDone, TxtCreated,
                            TxtComplete, TxtUnfinished}}
AuxiliaryResponses ==
    {RespWriteFile} \cup {Prose(t) : t \in {TxtCreated, TxtYes}}
ResponsesAt(site) ==
    IF site = "direct" THEN Responses
    ELSE IF site = "main" THEN CycleResponses
    ELSE AuxiliaryResponses

(***************************************************************************)
(* AgentLoop.parseToolCall: the four forms in their fixed order; a form    *)
(* yields a ToolCall when its candidate parsed and both parsed.tool and    *)
(* parsed.args are truthy, and falls through otherwise.                    *)
(***************************************************************************)
NoToolCall == [found |-> FALSE]
ToolCall(name, arguments) ==
    [found |-> TRUE, name |-> name, arguments |-> arguments]

\* a test that asks for the tool property alone
AcceptsWithoutArguments(candidate) ==
    /\ candidate.kind = "value"
    /\ Truthy(candidate.tool)

Accepts(candidate) ==
    /\ candidate.kind = "value"
    /\ Truthy(candidate.tool)
    /\ Truthy(candidate.args)
FromCandidate(candidate) == ToolCall(candidate.tool, candidate.args)

\* a parser in which the last form that succeeds wins
parseToolCallLastWins(reply) ==
    IF Accepts(reply.jsonObjectMatch)
    THEN FromCandidate(reply.jsonObjectMatch)
    ELSE IF Accepts(reply.codeBlockMatch)
    THEN FromCandidate(reply.codeBlockMatch)
    ELSE IF Accepts(reply.jsonCodeBlockMatch)
    THEN FromCandidate(reply.jsonCodeBlockMatch)
    ELSE IF Accepts(reply.plain) THEN FromCandidate(reply.plain)
    ELSE NoToolCall

parseToolCall(reply) ==
    IF Accepts(reply.plain) THEN FromCandidate(reply.plain)
    ELSE IF Accepts(reply.jsonCodeBlockMatch)
    THEN FromCandidate(reply.jsonCodeBlockMatch)
    ELSE IF Accepts(reply.codeBlockMatch)
    THEN FromCandidate(reply.codeBlockMatch)
    ELSE IF Accepts(reply.jsonObjectMatch)
    THEN FromCandidate(reply.jsonObjectMatch)
    ELSE NoToolCall

(***************************************************************************)
(* ToolRouter: the registry is the set of registered names; a capability's *)
(* execute either produces a value or throws.                              *)
(***************************************************************************)
Produces(value) == [kind |-> "value", value |-> value]
Throws(error) == [kind |-> "throw", error |-> error]
\* thrown values: an Error with a message, or something that is not an Error
ErrorOf(message) == [isError |-> TRUE, message |-> message]
ThrownValue(value) == [isError |-> FALSE, value |-> value]

\* String(v) and `${v}` for the printable values of the model
StringOf(v) == IF v.type = "string" THEN v.str ELSE "[object Object]"
\* error instanceof Error ? error.message : String(error)
ErrorMessage(error) ==
    IF error.isError THEN error.message ELSE StringOf(error.value)

\* Map.get(name) finds an entry only for a string key that was registered
Registered(tools, name) == name.type = "string" /\ name.str \in tools

\* the completion of ToolRouter.execute: the envelope it returns, or what
\* it throws, and the capabilities whose execute it invoked
Returned(envelope, invoked) ==
    [threw |-> FALSE, envelope |-> envelope, invoked |-> invoked]
Threw(error, invoked) ==
    [threw |-> TRUE, error |-> error, invoked |-> invoked]

\* an unregistered name reported as a success without a result
NotFoundSucceeds(name) ==
    Returned([success |-> TRUE, result |-> Undefined], {})

\* if (!tool) return { success: false, error: `Tool "${name}" not found` }
NotFound(name) ==
    Returned([success |-> FALSE,
              error |-> "Tool \"" \o StringOf(name) \o "\" not found"], {})

\* the capability invoked without the try/catch around it
InvokeUncaught(name, behaviour) ==
    IF behaviour.kind = "value"
    THEN Returned([success |-> TRUE, result |-> behaviour.value], {name.str})
    ELSE Threw(behaviour.error, {name.str})

\* try { result = await tool.execute(args) ... } catch (error) { ... }
Invoke(name, behaviour) ==
    IF behaviour.kind = "value"
    THEN Returned([success |-> TRUE, result |-> behaviour.value], {name.str})
    ELSE Returned([success |-> FALSE, error |-> ErrorMessage(behaviour.error)],
                  {name.str})

\* a router that throws for an unregistered name
executeRaisingNotFound(tools, name, behaviour) ==
    IF ~Registered(tools, name)
    THEN Threw(ErrorOf("Tool \"" \o StringOf(name) \o "\" not found"), {})
    ELSE Invoke(name, behaviour)

\* ToolRouter.execute(name, args), `behaviour` being what the capability does
\* when it is invoked
execute(tools, name, behaviour) ==
    IF ~Registered(tools, name) THEN NotFound(name)
    ELSE Invoke(name, behaviour)

\* what the capabilities reached through model-issued calls may do
CapabilityOutcomes ==
    {Produces(Obj(<<"ok">>)), Produces(Cyclic),
     Throws(ErrorOf("boom")), Throws(ThrownValue(Str("fail")))}

CapabilityOutcomesAt(site) ==
    IF site = "direct" THEN CapabilityOutcomes
    ELSE {Produces(Obj(<<"ok">>)), Throws(ErrorOf("boom"))}

\* The server capabilities of createMCPServerTools share one
\* DevServerManager; `running` is the set of pids in its `servers` map.
\* the pid of the process the start capability spawns
ServerPid == 101
\* DevServerManager.start: this.servers.set(server.pid, server)
managerStart(running, pid) == running \cup {pid}
\* DevServerManager.stop: server.process.kill(); this.servers.delete(pid)
managerStop(running, pid) == running \ {pid}
\* server.stop: await manager.stop(pid); return { success: true }, where
\* stop throws for a pid that is not in the map
serverStop(running, pid) ==
    IF pid \in running THEN Produces(Obj(<<"success">>))
    ELSE Throws(ErrorOf("Server with PID 101 not found"))

\* JSON.stringify(toolResult, null, 2) throws on a value it cannot encode
Serializable(envelope) ==
    ~("result" \in DOMAIN envelope /\ envelope.result.type = "cyclic")

(***************************************************************************)
(* The guards of AgentLoop.run on a response that is not a tool call.      *)
(***************************************************************************)
ActionWords ==
    {<<"d", "e", "l", "e", "t", "e">>,
     <<"r", "e", "m", "o", "v", "e">>,
     <<"c", "r", "e", "a", "t", "e">>,
     <<"u", "p", "d", "a", "t", "e">>,
     <<"i", "n", "s", "t", "a", "l", "l">>,
     <<"r", "u", "n">>}
AnnouncedSteps ==
    {w \o <<" ">> : w \in ActionWords \cup
        {<<"p", "r", "o", "c", "e", "e", "d", " ", "t", "o">>,
         <<"d", "o">>}}
RequestWords ==
    ActionWords \cup {<<"b", "u", "i", "l", "d">>}
InfoGatheringTools == {"list_files", "read_file"}
ActionTools ==
    {"delete_file", "write_file", "run_command", "create_app_directory"}

\* /(found|located).*tail/: the dot does not cross a line terminator
FoundThen(s, pattern) ==
    \E tail \in {pattern}, first \in {<<"f", "o", "u", "n", "d">>,
                   <<"l", "o", "c", "a", "t", "e", "d">>} :
        \E i \in 1..Len(s), j \in 1..Len(s) :
            /\ MatchAt(s, first, i)
            /\ j >= i + Len(first)
            /\ MatchAt(s, tail, j)
            /\ \A k \in (i + Len(first))..(j - 1) : s[k] \notin LineTerminators

\* actionDescriptionPatterns.some(pattern => pattern.test(response)); the
\* patterns carry the i flag, so they are matched on the lower-cased text
isActionDescription(reply) ==
    \E s \in {toLowerCase(reply)} :
    \/ \E w \in AnnouncedSteps :
            includes(s, <<"i", " ", "w", "i", "l", "l", " ">> \o w)
    \/ \E w \in AnnouncedSteps : includes(s, <<"i", "'", "l", "l", " ">> \o w)
    \/ includes(s, <<"i", " ", "w", "i", "l", "l", " ", "n", "o", "w">>)
    \/ includes(s, <<"i", "'", "l", "l", " ", "n", "o", "w">>)
    \/ \E w \in ActionWords :
            includes(s, <<"p", "r", "o", "c", "e", "e", "d", " ", "t", "o",
                          " ">> \o w)
    \/ \E w \in ActionWords : includes(s, <<"w", "i", "l", "l", " ">> \o w)
    \/ \E w \in ActionWords :
            includes(s, <<"g", "o", "i", "n", "g", " ", "t", "o", " ">> \o w)
    \/ \E w \in {<<"d", "e", "l", "e", "t", "e">>,
                  <<"r", "e", "m", "o", "v", "e">>} :
            FoundThen(s, <<"w", "i", "l", "l", " ">> \o w)
    \/ FoundThen(s, <<"p", "r", "o", "c", "e", "e", "d", " ", "t", "o">>)

\* isActionDescription, tabulated once over the texts the model may send
describesAction ==
    [text \in {reply.text : reply \in Responses} |->
        isActionDescription(text)]

userRequestedAction(message) ==
    \E lowered \in {toLowerCase(message)} :
        \E w \in RequestWords : includes(lowered, w)

NameIn(invocation, names) ==
    invocation.name.type = "string" /\ invocation.name.str \in names
\* a test that takes no tool for an information-gathering one
lastToolWasNeverInfoGathering(toolCalls) == FALSE

lastToolWasInfoGathering(toolCalls) ==
    Len(toolCalls) > 0 /\ NameIn(toolCalls[Len(toolCalls)], InfoGatheringTools)
lastToolWasAction(toolCalls) ==
    Len(toolCalls) > 0 /\ NameIn(toolCalls[Len(toolCalls)], ActionTools)
\* a test that looks at the most recent invocation only
hasActionToolLast(toolCalls) == lastToolWasAction(toolCalls)

\* state.toolCalls.some(tc => [...].includes(tc.name))
hasActionTool(toolCalls) ==
    \E i \in 1..Len(toolCalls) : NameIn(toolCalls[i], ActionTools)

\* a classification whose action-description guard ignores the tool-call log
ClassifyWithoutLog(reply, requested, toolCalls) ==
    IF trim(reply) = <<>> THEN "empty"
    ELSE IF describesAction[reply] /\ requested THEN "action-description"
    ELSE IF /\ hasActionTool(toolCalls)
            /\ requested
            /\ Len(trim(reply)) < MinCompletionLength
    THEN "terse"
    ELSE "final"

\* the branch taken for a response that parseToolCall rejected
Classify(reply, requested, toolCalls) ==
    IF trim(reply) = <<>> THEN "empty"
    ELSE IF /\ describesAction[reply]
            /\ requested
            /\ ~lastToolWasAction(toolCalls)
            /\ (Len(toolCalls) = 0 \/ lastToolWasInfoGathering(toolCalls))
    THEN "action-description"
    ELSE IF /\ hasActionTool(toolCalls)
            /\ requested
            /\ Len(trim(reply)) < MinCompletionLength
    THEN "terse"
    ELSE "final"

actionHint(message) ==
    IF \/ includes(toLowerCase(message), <<"r", "e", "m", "o", "v", "e">>)
       \/ includes(toLowerCase(message), <<"d", "e", "l", "e", "t", "e">>)
    THEN "use-delete_file"
    ELSE IF includes(toLowerCase(message), <<"c", "r", "e", "a", "t", "e">>)
    THEN "use-create-tool"
    ELSE "use-appropriate-tool"

(***************************************************************************)
(* State.                                                                  *)
(***************************************************************************)
VARIABLES
    config,          \* tools (registered names), maxIterations,
                     \* devServerCommand, testUrl, successCriteria
    goal,            \* the argument of AutonomousLoop.run
    caller,          \* who awaits the Agent Loop run: "direct", or the call
                     \* site of AutonomousLoop.run ("main", "analysis", "check")
    initialMessage,  \* the first argument of the Agent Loop run in progress
    previousMessages,\* the second argument of a direct Agent Loop run; the
                     \* Autonomous Loop passes none
    state,           \* AgentState of the Agent Loop run in progress
    apc,             \* position of the Agent Loop run
    agentOutcome,    \* how the last Agent Loop run ended
    outer,           \* locals of AutonomousLoop.run
    upc,             \* position of AutonomousLoop.run
    pending,         \* completion of the try block, held while finally runs
    outcome,         \* how AutonomousLoop.run ended
    modelCalls,      \* model calls issued by the Agent Loop run in progress
    parsedCalls,     \* tool invocations parsed since the top-level run began
    detours,         \* rounds since then that went on to a further round
    dispatches,      \* the ToolRouter.execute calls of the Agent Loop run
                     \* in progress, each with its completion
    responseKind,    \* how the run in progress took its latest response
    response,        \* the local `response` of the round in progress
    toolCall,        \* the local `toolCall` of the round in progress
    stops,           \* executions of the stop capability by the teardown
    teardown,        \* how the stop capability completed
    servers,         \* the pids in the `servers` map of the one
                     \* DevServerManager every server capability uses
    peer,            \* the locals of another run call on the same
                     \* AgentLoop: of a call not made yet, or of a call
                     \* that waits at a suspension point or has ended
    history          \* of the Autonomous Loop run: the final messages of
                     \* its cycles, those of its judging sessions, the
                     \* cycles whose inspection session was started, and
                     \* the step that threw

vars ==
    <<config, goal, previousMessages, caller, initialMessage, state, apc, agentOutcome, outer,
      upc, pending, outcome, modelCalls, parsedCalls, detours, dispatches,
      responseKind, response, toolCall, stops, teardown, servers, peer,
      history>>
env == <<config, goal, previousMessages>>
manager == <<servers>>
session ==
    <<caller, initialMessage, state, apc, agentOutcome, modelCalls,
      dispatches, responseKind, response, toolCall>>
run == <<outer, upc, pending, outcome, stops, teardown, history>>
bounds == <<parsedCalls, detours>>

Null == [type |-> "null"]
Num(n) == [type |-> "number", num |-> n]

\* the bound on the detours of the top-level run in progress
DetourBound == IF upc = "none" THEN MaxDetours ELSE MaxSessionDetours

\* config.maxIterations ?? fallback: only an unset value gets the default
OrDefaultNullish(value, fallback) ==
    IF value.type = "undefined" THEN fallback ELSE value.num

\* config.maxIterations || fallback
OrDefault(value, fallback) == IF Truthy(value) THEN value.num ELSE fallback
\* AgentLoop constructor: this.maxIterations
roundBudget == OrDefault(config.maxIterations, DefaultRoundBudget)
\* AutonomousLoop.run: const maxIterations
cycleBudget == OrDefault(config.maxIterations, DefaultCycleBudget)

(***************************************************************************)
(* Conversation turns.                                                     *)
(***************************************************************************)
Turn(role, content) == [role |-> role, content |-> content]
SystemInstructions ==
    Turn("system", [kind |-> "instructions", maxIterations |-> roundBudget])
UserTurn(text) == Turn("user", [kind |-> "text", text |-> text])
AssistantTurn(text) == Turn("assistant", [kind |-> "text", text |-> text])
UsingTool(name) ==
    Turn("assistant", [kind |-> "using-tool", tool |-> StringOf(name)])
ToolExecuted(name, envelope) ==
    Turn("system", [kind |-> "tool-executed", tool |-> StringOf(name),
                    result |-> envelope])
ToolFailed(name, message) ==
    Turn("system", [kind |-> "tool-failed", tool |-> StringOf(name),
                    error |-> message])
EmptyResponseNotice == Turn("system", [kind |-> "empty-response"])
ExecuteNotice(message) ==
    Turn("system", [kind |-> "described-not-executed", request |-> message,
                    hint |-> actionHint(message)])
SummaryNotice == Turn("system", [kind |-> "completion-message-wanted"])

\* a filter that drops a system turn only at the head of the history
WithoutLeadingSystem(turns) ==
    IF turns # <<>> /\ Head(turns).role = "system" THEN Tail(turns)
    ELSE turns

RECURSIVE WithoutSystem(_)
WithoutSystem(turns) ==
    IF turns = <<>> THEN <<>>
    ELSE IF Head(turns).role = "system" THEN WithoutSystem(Tail(turns))
    ELSE <<Head(turns)>> \o WithoutSystem(Tail(turns))

\* a prior history: a system turn of an earlier run, a user and an
\* assistant turn
PriorHistory ==
    <<Turn("system", [kind |-> "instructions", maxIterations |-> 0]),
      UserTurn(<<"h", "e", "l", "l", "o">>),
      Turn("system", [kind |-> "empty-response"]),
      AssistantTurn(<<"h", "i">>)>>

(***************************************************************************)
(* AgentLoop.run, up to its while loop: the seeded turns and fresh state.  *)
(***************************************************************************)
InitialState(message, prior) ==
    [messages |-> <<SystemInstructions>> \o WithoutSystem(prior)
                  \o <<UserTurn(message)>>,
     toolCalls |-> <<>>,
     toolResults |-> <<>>,
     iteration |-> 0,
     maxIterations |-> roundBudget]

\* the state of an AgentLoop on which run has not been called
NoState ==
    [messages |-> <<>>, toolCalls |-> <<>>, toolResults |-> <<>>,
     iteration |-> 0, maxIterations |-> 0]

NotRun == [status |-> "none"]
\* a result that leaves the tool-call log out
AgentReturnedWithoutLog(result) ==
    [status |-> "returned", result |-> [result EXCEPT !.toolCalls = <<>>]]

AgentReturned(result) == [status |-> "returned", result |-> result]
AgentThrew(error) == [status |-> "thrown", error |-> error]

BudgetExceeded ==
    ErrorOf("Agent loop exceeded max iterations ("
            \o ToString(roundBudget) \o ")")
ModelFailure == ErrorOf("model session failed")
NotPrimitive == ErrorOf("Cannot convert object to primitive value")

(***************************************************************************)
(* AgentLoop.run: the while loop.  A step runs from one suspension point   *)
(* (the model call, the tool dispatch) to the next.                        *)
(***************************************************************************)
\* let response = '': the local of a round before its model call answers
NoResponse == Prose(<<>>)

\* the locals of the run call in progress
Locals ==
    [caller |-> caller, initialMessage |-> initialMessage, state |-> state,
     apc |-> apc, agentOutcome |-> agentOutcome, modelCalls |-> modelCalls,
     dispatches |-> dispatches, responseKind |-> responseKind,
     response |-> response, toolCall |-> toolCall]
\* no run call
NoCall ==
    [caller |-> "none", initialMessage |-> <<>>, state |-> NoState,
     apc |-> "idle", agentOutcome |-> NotRun, modelCalls |-> 0,
     dispatches |-> <<>>, responseKind |-> "none", response |-> NoResponse,
     toolCall |-> NoToolCall]

\* a loop condition that admits one round more than the budget
WithinBudgetInclusive(iteration) == iteration <= roundBudget

\* while (state.iteration < this.maxIterations)
WithinBudget(iteration) == iteration < roundBudget

\* a counter that advances by two
NextRoundSkipsOne(iteration) == iteration + 2

\* state.iteration++
NextRound(iteration) == iteration + 1

\* a round begins: the counter is advanced and the model call is issued
AgentIssueModelCall ==
    /\ apc = "while"
    /\ WithinBudget(state.iteration)
    /\ state' = [state EXCEPT !.iteration = NextRound(@)]
    /\ modelCalls' = modelCalls + 1
    /\ apc' = "awaitModel"
    /\ response' = NoResponse
    /\ toolCall' = NoToolCall
    /\ UNCHANGED <<caller, initialMessage, agentOutcome, dispatches,
                   responseKind>>
    /\ UNCHANGED <<env, peer, manager, run, bounds>>

\* the loop condition fails: throw new Error(`Agent loop exceeded ...`)
AgentBudgetExceeded ==
    /\ apc = "while"
    /\ ~WithinBudget(state.iteration)
    /\ apc' = "thrown"
    /\ agentOutcome' = AgentThrew(BudgetExceeded)
    /\ UNCHANGED <<caller, initialMessage, state, modelCalls, dispatches,
                   responseKind, response, toolCall>>
    /\ UNCHANGED <<env, peer, manager, run, bounds>>

\* model.streamChat throws: nothing in run catches it
AgentModelFails ==
    /\ apc = "awaitModel"
    /\ apc' = "thrown"
    /\ agentOutcome' = AgentThrew(ModelFailure)
    /\ responseKind' = "none"
    /\ UNCHANGED <<caller, initialMessage, state, modelCalls, dispatches,
                   response, toolCall>>
    /\ UNCHANGED <<env, peer, manager, run, bounds>>

\* the response parses as a tool call: it is logged, announced and dispatched
AgentReceiveToolCall ==
    /\ apc = "awaitModel"
    /\ parsedCalls < MaxToolCalls
    /\ detours < DetourBound
    /\ \E reply \in ResponsesAt(caller) :
        LET invocation == parseToolCall(reply) IN
        /\ invocation.found
        /\ Printable(invocation.name)
        /\ response' = reply
        /\ toolCall' = parseToolCall(reply)
        /\ state' = [state EXCEPT
               !.toolCalls = Append(@, [name |-> invocation.name,
                                        arguments |-> invocation.arguments]),
               !.messages = Append(@, UsingTool(invocation.name))]
    /\ parsedCalls' = parsedCalls + 1
    /\ detours' = detours + 1
    /\ responseKind' = "tool-call"
    /\ apc' = "awaitTool"
    /\ UNCHANGED <<caller, initialMessage, agentOutcome, modelCalls,
                   dispatches>>
    /\ UNCHANGED <<env, peer, manager, run>>

\* the response parses as a tool call whose name `Using tool: ${name}`
\* cannot convert to a string: the TypeError leaves run
AgentReceiveUnprintableCall ==
    /\ apc = "awaitModel"
    /\ parsedCalls < MaxToolCalls
    /\ \E reply \in ResponsesAt(caller) :
        LET invocation == parseToolCall(reply) IN
        /\ invocation.found
        /\ ~Printable(invocation.name)
        /\ response' = reply
        /\ toolCall' = parseToolCall(reply)
        /\ state' = [state EXCEPT
               !.toolCalls = Append(@, [name |-> invocation.name,
                                        arguments |-> invocation.arguments])]
    /\ parsedCalls' = parsedCalls + 1
    /\ responseKind' = "unprintable-call"
    /\ apc' = "thrown"
    /\ agentOutcome' = AgentThrew(NotPrimitive)
    /\ UNCHANGED <<caller, initialMessage, modelCalls, dispatches, detours>>
    /\ UNCHANGED <<env, peer, manager, run>>

\* a run that gives up when the dispatch failed
AfterDispatchStopOnFailure(completion) ==
    IF completion.threw \/ ~completion.envelope.success
    THEN "thrown" ELSE "while"

\* a run that throws when the router found no capability
AfterDispatchThrowsOnNotFound(completion) ==
    IF ~completion.threw /\ completion.invoked = {} THEN "thrown"
    ELSE "while"

\* where run goes once the dispatch completed: both branches `continue`
AfterDispatch(completion) == "while"

\* toolRouter.execute completes; the result is logged and appended as a
\* system turn (the catch branch appends the error instead)
AgentToolCompletes ==
    /\ apc = "awaitTool"
    /\ LET invocation == state.toolCalls[Len(state.toolCalls)]
           known == Registered(config.tools, invocation.name)
           \* the one document that names server.stop gives args.pid
           stopsServer == known /\ invocation.name = Str("server.stop")
       IN \E capability \in (IF ~known THEN {Produces(Undefined)}
                             ELSE IF stopsServer
                             THEN {serverStop(servers, ServerPid)}
                             ELSE CapabilityOutcomesAt(caller)) :
            LET done == execute(config.tools, invocation.name, capability) IN
            /\ dispatches' = Append(dispatches,
                                 [name |-> invocation.name,
                                  arguments |-> invocation.arguments,
                                  capability |-> capability,
                                  completion |-> done])
            /\ state' =
                 IF done.threw
                 THEN [state EXCEPT !.messages =
                          Append(@, ToolFailed(invocation.name,
                                               ErrorMessage(done.error)))]
                 ELSE IF Serializable(done.envelope)
                 THEN [state EXCEPT
                          !.toolResults = Append(@, done.envelope),
                          !.messages = Append(@,
                              ToolExecuted(invocation.name, done.envelope))]
                 ELSE [state EXCEPT
                          !.toolResults = Append(@, done.envelope),
                          !.messages = Append(@,
                              ToolFailed(invocation.name,
                                  "Converting circular structure to JSON"))]
            /\ apc' = AfterDispatch(done)
            /\ servers' = IF stopsServer
                          THEN managerStop(servers, ServerPid)
                          ELSE servers
    /\ UNCHANGED <<caller, initialMessage, agentOutcome, modelCalls,
                   responseKind, response, toolCall>>
    /\ UNCHANGED <<env, peer, run, bounds>>

\* a response that is not a tool call and takes the given branch
Rejected(reply, requested, branch) ==
    /\ ~parseToolCall(reply).found
    /\ Classify(reply.text, requested, state.toolCalls) = branch

\* if (!response.trim()): corrective system turn, continue
AgentReceiveEmpty ==
    /\ apc = "awaitModel"
    /\ detours < DetourBound
    /\ LET requested == userRequestedAction(initialMessage) IN
       \E reply \in ResponsesAt(caller) :
           /\ Rejected(reply, requested, "empty")
           /\ response' = reply
           /\ toolCall' = parseToolCall(reply)
    /\ state' = [state EXCEPT !.messages = Append(@, EmptyResponseNotice)]
    /\ detours' = detours + 1
    /\ responseKind' = "empty"
    /\ apc' = "while"
    /\ UNCHANGED <<caller, initialMessage, agentOutcome, modelCalls,
                   dispatches, parsedCalls>>
    /\ UNCHANGED <<env, peer, manager, run>>

\* the action-description guard: corrective system turn, continue
AgentReceiveActionDescription ==
    /\ apc = "awaitModel"
    /\ detours < DetourBound
    /\ LET requested == userRequestedAction(initialMessage) IN
       \E reply \in ResponsesAt(caller) :
           /\ Rejected(reply, requested, "action-description")
           /\ response' = reply
           /\ toolCall' = parseToolCall(reply)
    /\ state' = [state EXCEPT !.messages = Append(@, ExecuteNotice(initialMessage))]
    /\ detours' = detours + 1
    /\ responseKind' = "action-description"
    /\ apc' = "while"
    /\ UNCHANGED <<caller, initialMessage, agentOutcome, modelCalls,
                   dispatches, parsedCalls>>
    /\ UNCHANGED <<env, peer, manager, run>>

\* the terse-completion guard: corrective system turn, continue
AgentReceiveTerse ==
    /\ apc = "awaitModel"
    /\ detours < DetourBound
    /\ LET requested == userRequestedAction(initialMessage) IN
       \E reply \in ResponsesAt(caller) :
           /\ Rejected(reply, requested, "terse")
           /\ response' = reply
           /\ toolCall' = parseToolCall(reply)
    /\ state' = [state EXCEPT !.messages = Append(@, SummaryNotice)]
    /\ detours' = detours + 1
    /\ responseKind' = "terse"
    /\ apc' = "while"
    /\ UNCHANGED <<caller, initialMessage, agentOutcome, modelCalls,
                   dispatches, parsedCalls>>
    /\ UNCHANGED <<env, peer, manager, run>>

\* the final answer: appended as an assistant turn and returned
AgentReceiveFinal ==
    /\ apc = "awaitModel"
    /\ LET requested == userRequestedAction(initialMessage) IN
       \E reply \in ResponsesAt(caller) :
        /\ Rejected(reply, requested, "final")
        /\ response' = reply
        /\ toolCall' = parseToolCall(reply)
        /\ state' = [state EXCEPT
               !.messages = Append(@, AssistantTurn(reply.text))]
        /\ agentOutcome' =
               AgentReturned([finalMessage |-> reply.text,
                              toolCalls |-> state.toolCalls,
                              iterations |-> state.iteration])
    /\ responseKind' = "final"
    /\ apc' = "returned"
    /\ UNCHANGED <<caller, initialMessage, modelCalls, dispatches>>
    /\ UNCHANGED <<env, peer, manager, run, bounds>>

AgentNext ==
    \/ AgentIssueModelCall
    \/ AgentBudgetExceeded
    \/ AgentModelFails
    \/ AgentReceiveToolCall
    \/ AgentReceiveUnprintableCall
    \/ AgentToolCompletes
    \/ AgentReceiveEmpty
    \/ AgentReceiveActionDescription
    \/ AgentReceiveTerse
    \/ AgentReceiveFinal

(***************************************************************************)
(* AutonomousLoop.run.                                                     *)
(***************************************************************************)
Running == [status |-> "running"]
Return(result) == [status |-> "returned", result |-> result]
Throw(error) == [status |-> "thrown", error |-> error]

DigitChars == <<"0", "1", "2", "3", "4", "5", "6", "7", "8", "9">>
RECURSIVE Decimal(_)
Decimal(n) ==
    IF n < 10 THEN <<DigitChars[n + 1]>>
    ELSE Decimal(n \div 10) \o <<DigitChars[(n % 10) + 1]>>

\* the prompt of cycle `iteration`
contextMessage(iteration) ==
    IF iteration > 1
    THEN goal
         \o <<"\n", "\n", "I", "t", "e", "r", "a", "t", "i", "o", "n", " ">>
         \o Decimal(iteration)
         \o <<".", " ", "C", "o", "n", "t", "i", "n", "u", "e", " ", "w",
              "o", "r", "k", "i", "n", "g", " ", "t", "o", "w", "a", "r",
              "d", "s", " ", "t", "h", "e", " ", "g", "o", "a", "l", ".">>
    ELSE goal

\* JSON.stringify(logs) for the console logs the capability may report
LogsEmpty == <<"[", "]">>
LogsError ==
    <<"[", "{", "\"", "t", "y", "p", "e", "\"", ":", "\"", "e", "r", "r",
      "o", "r", "\"", ",", "\"", "t", "e", "x", "t", "\"", ":", "\"", "b",
      "u", "i", "l", "d", " ", "f", "a", "i", "l", "e", "d", "\"", "}", "]">>

analysisMessage(screenshot, logs) ==
    <<"A", "n", "a", "l", "y", "z", "e", " ", "t", "h", "e", " ", "c", "u",
      "r", "r", "e", "n", "t", " ", "s", "t", "a", "t", "e", ":", "\n",
      "\n", "S", "c", "r", "e", "e", "n", "s", "h", "o", "t", ":", " ">>
    \o (IF screenshot THEN <<"A", "v", "a", "i", "l", "a", "b", "l", "e">>
        ELSE <<"N", "o", "t", " ", "a", "v", "a", "i", "l", "a", "b", "l", "e">>)
    \o <<"\n", "C", "o", "n", "s", "o", "l", "e", " ", "l", "o", "g", "s",
         ":", " ">>
    \o logs
    \o <<"\n", "\n", "D", "o", "e", "s", " ", "t", "h", "e", " ", "a", "p",
         "p", "l", "i", "c", "a", "t", "i", "o", "n", " ", "l", "o", "o",
         "k", " ", "c", "o", "r", "r", "e", "c", "t", "?", " ", "A", "r",
         "e", " ", "t", "h", "e", "r", "e", " ", "a", "n", "y", " ", "e",
         "r", "r", "o", "r", "s", "?">>

checkMessage(criteria, current) ==
    <<"C", "h", "e", "c", "k", " ", "i", "f", " ", "t", "h", "i", "s", " ",
      "c", "r", "i", "t", "e", "r", "i", "a", " ", "i", "s", " ", "m", "e",
      "t", ":", " ", "\"">>
    \o criteria
    \o <<"\"", "\n", "\n", "C", "u", "r", "r", "e", "n", "t", " ", "s",
         "t", "a", "t", "e", ":", " ">>
    \o current
    \o <<"\n", "\n", "R", "e", "s", "p", "o", "n", "d", " ", "w", "i", "t",
         "h", " ", "\"", "Y", "E", "S", "\"", " ", "i", "f", " ", "c", "r",
         "i", "t", "e", "r", "i", "a", " ", "i", "s", " ", "m", "e", "t",
         ",", " ", "\"", "N", "O", "\"", " ", "o", "t", "h", "e", "r", "w",
         "i", "s", "e", ".">>

\* checkResult.finalMessage.toUpperCase().includes('YES')
\* the affirmative token looked for without upper-casing the message
AffirmativeCaseSensitive(message) == includes(message, <<"Y", "E", "S">>)

\* checkResult.finalMessage.toUpperCase().includes('YES')
Affirmative(message) == includes(toUpperCase(message), <<"Y", "E", "S">>)

\* the completion keywords looked for without lower-casing the message
saysDoneCaseSensitive(message) ==
    \/ includes(message, <<"d", "o", "n", "e">>)
    \/ includes(message, <<"c", "o", "m", "p", "l", "e", "t", "e">>)
    \/ includes(message, <<"f", "i", "n", "i", "s", "h", "e", "d">>)

\* the completion keywords, looked for in the lower-cased final message
saysDone(message) ==
    \/ includes(toLowerCase(message), <<"d", "o", "n", "e">>)
    \/ includes(toLowerCase(message),
                <<"c", "o", "m", "p", "l", "e", "t", "e">>)
    \/ includes(toLowerCase(message),
                <<"f", "i", "n", "i", "s", "h", "e", "d">>)

\* agentResult.toolCalls.map((tc) => ({ name: tc.name, args: tc.arguments }))
RenameArguments(toolCalls) ==
    [i \in 1..Len(toolCalls) |->
        [name |-> toolCalls[i].name, args |-> toolCalls[i].arguments]]

NoAgentResult == [finalMessage |-> <<>>, toolCalls |-> <<>>, iterations |-> 0]
OuterLocals ==
    [iteration |-> 0, devServerPid |-> Null, toolCalls |-> <<>>,
     agentResult |-> NoAgentResult, analysisResult |-> NoAgentResult,
     screenshot |-> FALSE]

\* a run that goes on from the state the previous call left, as if the
\* state were a field of the AgentLoop
StartAgentOnInstanceState(site, message) ==
    /\ caller' = site
    /\ initialMessage' = message
    /\ state' = [state EXCEPT !.messages = Append(@, UserTurn(message))]
    /\ apc' = "while"
    /\ modelCalls' = 0
    /\ agentOutcome' = NotRun
    /\ dispatches' = <<>>
    /\ responseKind' = "none"
    /\ response' = NoResponse
    /\ toolCall' = NoToolCall

\* this.agent.run(message): a fresh Agent Loop run, awaited at `site`
StartAgent(site, message) ==
    /\ caller' = site
    /\ initialMessage' = message
    /\ state' = InitialState(message, <<>>)
    /\ apc' = "while"
    /\ modelCalls' = 0
    /\ agentOutcome' = NotRun
    /\ dispatches' = <<>>
    /\ responseKind' = "none"
    /\ response' = NoResponse
    /\ toolCall' = NoToolCall

\* the awaited run completed and its completion was taken: the Session
\* State is discarded
DiscardSession ==
    /\ caller' = "none"
    /\ initialMessage' = <<>>
    /\ state' = NoState
    /\ apc' = "idle"
    /\ modelCalls' = 0
    /\ agentOutcome' = NotRun
    /\ dispatches' = <<>>
    /\ responseKind' = "none"
    /\ response' = NoResponse
    /\ toolCall' = NoToolCall

BrowserTools == {"browser.open", "browser.screenshot", "browser.console_logs"}

\* the outcomes of the capabilities AutonomousLoop.run executes directly
StartOutcomes ==
    {Produces(Obj(<<"pid", "port">>)), Produces(Obj(<<>>)),
     Throws(ErrorOf("spawn failed"))}
OpenOutcomes == {Produces(Obj(<<"success">>)), Throws(ErrorOf("no browser"))}
ScreenshotOutcomes ==
    {Produces(Obj(<<"screenshot">>)), Produces(Obj(<<>>)),
     Throws(ErrorOf("no page"))}
ConsoleOutcomes ==
    {Produces(Obj(<<"logs">>)), Throws(ErrorOf("no console"))}

\* if (this.config.devServerCommand) { serverTool = get('server.start') ...
StartsServer ==
    config.devServerCommand # "" /\ "server.start" \in config.tools

\* setup without a start command or without the start capability
AutoSetupSkip ==
    /\ upc = "setup"
    /\ ~StartsServer
    /\ upc' = "while"
    /\ UNCHANGED <<outer, pending, outcome, stops, teardown, history>>
    /\ UNCHANGED <<env, peer, manager, session, bounds>>

\* setup: serverTool.execute({command, cwd}) is issued
AutoSetupStart ==
    /\ upc = "setup"
    /\ StartsServer
    /\ upc' = "awaitStart"
    /\ UNCHANGED <<outer, pending, outcome, stops, teardown, history>>
    /\ UNCHANGED <<env, peer, manager, session, bounds>>

\* the start capability completes: the pid is captured when the result
\* carries one; a failure leaves the try block
AutoStartCompletes ==
    /\ upc = "awaitStart"
    /\ \E capability \in StartOutcomes :
        IF capability.kind = "value"
        THEN /\ outer' = [outer EXCEPT !.devServerPid =
                    IF HasProp(capability.value, "pid")
                    THEN Num(ServerPid) ELSE Null]
             /\ servers' = IF HasProp(capability.value, "pid")
                           THEN managerStart(servers, ServerPid)
                           ELSE servers
             /\ upc' = "while"
             /\ UNCHANGED <<pending, history>>
        ELSE /\ pending' = Throw(capability.error)
             /\ upc' = "finally"
             /\ history' = [history EXCEPT !.failedAt = "setup"]
             /\ UNCHANGED <<outer, servers>>
    /\ UNCHANGED <<outcome, stops, teardown>>
    /\ UNCHANGED <<env, peer, session, bounds>>

\* a loop condition that admits one cycle more than the budget
WithinCyclesInclusive(iteration) == iteration <= cycleBudget

\* while (iteration < maxIterations)
WithinCycles(iteration) == iteration < cycleBudget

\* a loop that starts the next cycle without counting it
AutoIterateUncounted ==
    /\ upc = "while"
    /\ WithinCycles(outer.iteration)
    /\ StartAgent("main", contextMessage(outer.iteration + 1))
    /\ upc' = "awaitMain"
    /\ UNCHANGED <<outer, pending, outcome, stops, teardown, history>>
    /\ UNCHANGED <<env, peer, manager, bounds>>

\* the next cycle runs the agent
AutoIterate ==
    /\ upc = "while"
    /\ WithinCycles(outer.iteration)
    /\ outer' = [outer EXCEPT !.iteration = @ + 1]
    /\ StartAgent("main", contextMessage(outer.iteration + 1))
    /\ upc' = "awaitMain"
    /\ UNCHANGED <<pending, outcome, stops, teardown, history>>
    /\ UNCHANGED <<env, peer, manager, bounds>>

\* a run that throws when the cycle budget is used up
ExhaustedThrows(iteration, toolCalls) ==
    Throw(ErrorOf("Reached maximum iterations ("
                  \o ToString(cycleBudget) \o ")"))

\* the completion of the try block when the cycle budget is used up
Exhausted(iteration, toolCalls) ==
    Return([success |-> FALSE,
            iterations |-> iteration,
            finalMessage |-> "Reached maximum iterations ("
                             \o ToString(cycleBudget) \o ")",
            toolCalls |-> toolCalls])

\* the loop condition fails
AutoExhausted ==
    /\ upc = "while"
    /\ ~WithinCycles(outer.iteration)
    /\ pending' = Exhausted(outer.iteration, outer.toolCalls)
    /\ upc' = "finally"
    /\ UNCHANGED <<outer, outcome, stops, teardown, history>>
    /\ UNCHANGED <<env, peer, manager, session, bounds>>

\* an inspection on every cycle
InspectsEveryCycle(iteration) ==
    config.testUrl # "" /\ BrowserTools \subseteq config.tools

\* an inspection that does not ask for the console capability
InspectsWithoutConsole(iteration) ==
    /\ config.testUrl # ""
    /\ iteration % ValidationPeriod = 0
    /\ {"browser.open", "browser.screenshot"} \subseteq config.tools

\* whether this cycle inspects the page
Inspects(iteration) ==
    /\ config.testUrl # ""
    /\ iteration % ValidationPeriod = 0
    /\ BrowserTools \subseteq config.tools

\* the cycle's session returned: its tool calls join the trace; on an
\* inspection cycle browserTool.execute({url}) is issued
AutoMainReturned ==
    /\ upc = "awaitMain"
    /\ apc = "returned"
    /\ outer' = [outer EXCEPT
           !.agentResult = agentOutcome.result,
           !.toolCalls = @ \o RenameArguments(agentOutcome.result.toolCalls)]
    /\ upc' = IF Inspects(outer.iteration) THEN "awaitOpen" ELSE "doneCheck"
    /\ history' = [history EXCEPT
           !.finals = @ \cup {agentOutcome.result.finalMessage}]
    /\ DiscardSession
    /\ UNCHANGED <<pending, outcome, stops, teardown>>
    /\ UNCHANGED <<env, peer, manager, bounds>>

\* a loop that drops the error of a session and goes on to the next cycle
AutoSessionRetried ==
    /\ upc \in {"awaitMain", "awaitAnalysis", "awaitCheck"}
    /\ apc = "thrown"
    /\ upc' = "while"
    /\ DiscardSession
    /\ UNCHANGED <<outer, pending, outcome, stops, teardown, history>>
    /\ UNCHANGED <<env, peer, manager, bounds>>

\* an Agent Loop run threw: the error leaves the try block
AutoSessionThrew ==
    /\ upc \in {"awaitMain", "awaitAnalysis", "awaitCheck"}
    /\ apc = "thrown"
    /\ pending' = Throw(agentOutcome.error)
    /\ upc' = "finally"
    /\ history' = [history EXCEPT !.failedAt =
           IF upc = "awaitMain" THEN "session" ELSE "validation"]
    /\ DiscardSession
    /\ UNCHANGED <<outer, outcome, stops, teardown>>
    /\ UNCHANGED <<env, peer, manager, bounds>>

\* browser.open completes; screenshotTool.execute({}) is issued
AutoOpenCompletes ==
    /\ upc = "awaitOpen"
    /\ \E capability \in OpenOutcomes :
        IF capability.kind = "value"
        THEN /\ upc' = "awaitScreenshot"
             /\ UNCHANGED <<pending, history>>
        ELSE /\ upc' = "finally"
             /\ pending' = Throw(capability.error)
             /\ history' = [history EXCEPT !.failedAt = "validation"]
    /\ UNCHANGED <<outer, outcome, stops, teardown>>
    /\ UNCHANGED <<env, peer, manager, session, bounds>>

\* browser.screenshot completes; consoleTool.execute({}) is issued
AutoScreenshotCompletes ==
    /\ upc = "awaitScreenshot"
    /\ \E capability \in ScreenshotOutcomes :
        IF capability.kind = "value"
        THEN /\ outer' = [outer EXCEPT !.screenshot =
                              HasProp(capability.value, "screenshot")]
             /\ upc' = "awaitConsole"
             /\ UNCHANGED <<pending, history>>
        ELSE /\ upc' = "finally"
             /\ pending' = Throw(capability.error)
             /\ history' = [history EXCEPT !.failedAt = "validation"]
             /\ UNCHANGED outer
    /\ UNCHANGED <<outcome, stops, teardown>>
    /\ UNCHANGED <<env, peer, manager, session, bounds>>

\* browser.console_logs completes; the inspection session is started
AutoConsoleCompletes ==
    /\ upc = "awaitConsole"
    /\ \E capability \in ConsoleOutcomes :
        IF capability.kind = "value"
        THEN /\ StartAgent("analysis",
                    analysisMessage(outer.screenshot,
                        IF HasProp(capability.value, "logs")
                        THEN LogsError ELSE LogsEmpty))
             /\ upc' = "awaitAnalysis"
             /\ history' = [history EXCEPT
                    !.inspected = @ \cup {outer.iteration}]
             /\ UNCHANGED pending
        ELSE /\ upc' = "finally"
             /\ pending' = Throw(capability.error)
             /\ history' = [history EXCEPT !.failedAt = "validation"]
             /\ UNCHANGED session
    /\ UNCHANGED <<outer, outcome, stops, teardown>>
    /\ UNCHANGED <<env, peer, manager, bounds>>

\* a loop that also adds the inspection session's tool calls to the trace
AutoAnalysisReturnedIntoTrace ==
    /\ upc = "awaitAnalysis"
    /\ apc = "returned"
    /\ outer' = [outer EXCEPT
           !.analysisResult = agentOutcome.result,
           !.toolCalls = @ \o RenameArguments(agentOutcome.result.toolCalls)]
    /\ IF config.successCriteria # <<>>
       THEN /\ StartAgent("check",
                   checkMessage(config.successCriteria,
                                agentOutcome.result.finalMessage))
            /\ upc' = "awaitCheck"
       ELSE /\ upc' = "doneCheck"
            /\ DiscardSession
    /\ UNCHANGED <<pending, outcome, stops, teardown, history>>
    /\ UNCHANGED <<env, peer, manager, bounds>>

\* the inspection session returned; with a success criteria the judging
\* session is started
AutoAnalysisReturned ==
    /\ upc = "awaitAnalysis"
    /\ apc = "returned"
    /\ outer' = [outer EXCEPT !.analysisResult = agentOutcome.result]
    /\ IF config.successCriteria # <<>>
       THEN /\ StartAgent("check",
                   checkMessage(config.successCriteria,
                                agentOutcome.result.finalMessage))
            /\ upc' = "awaitCheck"
       ELSE /\ upc' = "doneCheck"
            /\ DiscardSession
    /\ UNCHANGED <<pending, outcome, stops, teardown, history>>
    /\ UNCHANGED <<env, peer, manager, bounds>>

\* the judging session returned: YES ends the run with the inspection
\* summary
AutoCheckReturned ==
    /\ upc = "awaitCheck"
    /\ apc = "returned"
    /\ IF Affirmative(agentOutcome.result.finalMessage)
       THEN /\ pending' = Return([success |-> TRUE,
                   iterations |-> outer.iteration,
                   finalMessage |-> outer.analysisResult.finalMessage,
                   toolCalls |-> outer.toolCalls])
            /\ upc' = "finally"
       ELSE /\ upc' = "doneCheck"
            /\ UNCHANGED pending
    /\ history' = [history EXCEPT
           !.judged = @ \cup {agentOutcome.result.finalMessage}]
    /\ DiscardSession
    /\ UNCHANGED <<outer, outcome, stops, teardown>>
    /\ UNCHANGED <<env, peer, manager, bounds>>

\* the completion keywords end the run
AutoDone ==
    /\ upc = "doneCheck"
    /\ saysDone(outer.agentResult.finalMessage)
    /\ pending' = Return([success |-> TRUE,
                          iterations |-> outer.iteration,
                          finalMessage |-> outer.agentResult.finalMessage,
                          toolCalls |-> outer.toolCalls])
    /\ upc' = "finally"
    /\ UNCHANGED <<outer, outcome, stops, teardown, history>>
    /\ UNCHANGED <<env, peer, manager, session, bounds>>

\* no completion keyword: the loop body ends and its constants go out of
\* scope
AutoNotDone ==
    /\ upc = "doneCheck"
    /\ ~saysDone(outer.agentResult.finalMessage)
    /\ outer' = [outer EXCEPT !.agentResult = NoAgentResult,
                              !.analysisResult = NoAgentResult,
                              !.screenshot = FALSE]
    /\ upc' = "while"
    /\ UNCHANGED <<pending, outcome, stops, teardown, history>>
    /\ UNCHANGED <<env, peer, manager, session, bounds>>

\* a teardown that stops the server only when the try block returned
StopsServerOnReturn(completion) ==
    /\ outer.devServerPid # Null
    /\ "server.stop" \in config.tools
    /\ completion.status = "returned"

\* finally: if (devServerPid !== null) { stopTool = get('server.stop') ...
StopsServer(completion) ==
    outer.devServerPid # Null /\ "server.stop" \in config.tools

\* finally without a captured pid or without the stop capability: the
\* completion of the try block is the completion of run
AutoFinallySkip ==
    /\ upc = "finally"
    /\ ~StopsServer(pending)
    /\ outcome' = pending
    /\ upc' = "done"
    /\ UNCHANGED <<outer, pending, stops, teardown, history>>
    /\ UNCHANGED <<env, peer, manager, session, bounds>>

\* finally: stopTool.execute({pid}) is issued
AutoFinallyStop ==
    /\ upc = "finally"
    /\ StopsServer(pending)
    /\ stops' = stops + 1
    /\ upc' = "awaitStop"
    /\ UNCHANGED <<outer, pending, outcome, teardown, history>>
    /\ UNCHANGED <<env, peer, manager, session, bounds>>

\* a teardown without the try/catch around the stop capability
AfterStopUncaught(capability, completion) ==
    IF capability.kind = "value" THEN completion
    ELSE Throw(capability.error)

\* what run completes with once the stop capability completed: a failure
\* of the capability is caught and ignored
AfterStop(capability, completion) == completion

\* the stop capability completes: it fails when the manager no longer
\* knows the pid
AutoStopCompletes ==
    /\ upc = "awaitStop"
    /\ LET capability == serverStop(servers, outer.devServerPid.num) IN
        /\ outcome' = AfterStop(capability, pending)
        /\ teardown' = IF capability.kind = "value" THEN "stopped"
                       ELSE "stop-failed"
    /\ servers' = managerStop(servers, outer.devServerPid.num)
    /\ upc' = "done"
    /\ UNCHANGED <<outer, pending, stops, history>>
    /\ UNCHANGED <<env, peer, session, bounds>>

AutoNext ==
    \/ AutoSetupSkip
    \/ AutoSetupStart
    \/ AutoStartCompletes
    \/ AutoIterate
    \/ AutoExhausted
    \/ AutoMainReturned
    \/ AutoSessionThrew
    \/ AutoOpenCompletes
    \/ AutoScreenshotCompletes
    \/ AutoConsoleCompletes
    \/ AutoAnalysisReturned
    \/ AutoCheckReturned
    \/ AutoDone
    \/ AutoNotDone
    \/ AutoFinallySkip
    \/ AutoFinallyStop
    \/ AutoStopCompletes

(***************************************************************************)
(* Configurations and the specification.                                   *)
(***************************************************************************)
KnownTools ==
    {"write_file", "list_files", "server.start", "server.stop"}
    \cup BrowserTools
Registries ==
    {KnownTools, KnownTools \ {"server.stop"},
     KnownTools \ {"server.start", "browser.console_logs"}}

Configs ==
    [tools : Registries,
     maxIterations : {Num(n) : n \in 1..MaxBudget},
     devServerCommand : {"", "npm run dev"},
     testUrl : {"", "http://localhost:3000"},
     successCriteria : {<<>>, <<"s", "h", "o", "w", "s", " ", "X">>}]

Goals == {<<"c", "r", "e", "a", "t", "e", " ", "f", "i", "l", "e", " ", "X">>}
Messages ==
    {<<"d", "e", "l", "e", "t", "e", " ", "t", "m", "p">>,
     <<"w", "h", "a", "t", " ", "i", "s", " ", "X">>}

\* a caller runs the Agent Loop directly on a message and a prior history
InitDirect ==
    /\ config \in {c \in Configs : /\ c.devServerCommand = ""
                                   /\ c.testUrl = ""
                                   /\ c.successCriteria = <<>>}
    /\ goal = <<>>
    /\ caller = "direct"
    /\ initialMessage \in Messages
    /\ previousMessages \in {<<>>, PriorHistory}
    /\ state = InitialState(initialMessage, previousMessages)
    /\ apc = "while"
    /\ agentOutcome = NotRun
    /\ outer = OuterLocals
    /\ upc = "none"
    /\ pending = Running
    /\ outcome = Running
    /\ modelCalls = 0
    /\ parsedCalls = 0
    /\ detours = 0
    /\ dispatches = <<>>
    /\ responseKind = "none"
    /\ response = NoResponse
    /\ toolCall = NoToolCall
    /\ stops = 0
    /\ teardown = "none"
    /\ servers = {}
    /\ peer = NoCall
    /\ history = [finals |-> {}, judged |-> {}, inspected |-> {},
                  failedAt |-> "none"]

\* a caller runs the Autonomous Loop on a goal
InitAutonomous ==
    /\ config \in Configs
    /\ goal \in Goals
    /\ caller = "none"
    /\ initialMessage = <<>>
    /\ previousMessages = <<>>
    /\ state = NoState
    /\ apc = "idle"
    /\ agentOutcome = NotRun
    /\ outer = OuterLocals
    /\ upc = "setup"
    /\ pending = Running
    /\ outcome = Running
    /\ modelCalls = 0
    /\ parsedCalls = 0
    /\ detours = 0
    /\ dispatches = <<>>
    /\ responseKind = "none"
    /\ response = NoResponse
    /\ toolCall = NoToolCall
    /\ stops = 0
    /\ teardown = "none"
    /\ servers = {}
    /\ peer = NoCall
    /\ history = [finals |-> {}, judged |-> {}, inspected |-> {},
                  failedAt |-> "none"]

\* a direct Agent Loop run
SpecAgent == InitDirect /\ [][AgentNext]_vars

(***************************************************************************)
(* Two run calls on one AgentLoop.  A call runs without interruption from  *)
(* one await to the next; at an await of the call in progress, or once it  *)
(* has ended, the caller may make the second call, and either call may be  *)
(* resumed while the other waits.                                          *)
(***************************************************************************)
\* the await points of run, and its two ends
Suspended(position) == position \in {"awaitModel", "awaitTool"}
Finished(position) == position \in {"returned", "thrown"}

\* the first call is in progress; the second is still to be made
InitCalls ==
    /\ config = [tools |-> KnownTools, maxIterations |-> Num(2),
                 devServerCommand |-> "", testUrl |-> "",
                 successCriteria |-> <<>>]
    /\ goal = <<>>
    /\ caller = "direct"
    /\ initialMessage \in Messages
    /\ previousMessages = <<>>
    /\ state = InitialState(initialMessage, previousMessages)
    /\ apc = "while"
    /\ agentOutcome = NotRun
    /\ outer = OuterLocals
    /\ upc = "none"
    /\ pending = Running
    /\ outcome = Running
    /\ modelCalls = 0
    /\ parsedCalls = 0
    /\ detours = 0
    /\ dispatches = <<>>
    /\ responseKind = "none"
    /\ response = NoResponse
    /\ toolCall = NoToolCall
    /\ stops = 0
    /\ teardown = "none"
    /\ servers = {}
    /\ \E message \in Messages \ {initialMessage} :
        peer = [NoCall EXCEPT !.initialMessage = message]
    /\ history = [finals |-> {}, judged |-> {}, inspected |-> {},
                  failedAt |-> "none"]

\* agent.run(message) is called a second time, while the first call waits
\* or after it ended: the first call's locals stay as they are
CallRun ==
    /\ peer.apc = "idle"
    /\ Suspended(apc) \/ Finished(apc)
    /\ peer' = Locals
    /\ StartAgent("direct", peer.initialMessage)
    /\ UNCHANGED <<env, manager, run, bounds>>

\* the call in progress waits or has ended, and what the other call
\* awaited completes: the other call goes on with its own locals
Resume ==
    /\ Suspended(peer.apc)
    /\ Suspended(apc) \/ Finished(apc)
    /\ peer' = Locals
    /\ caller' = peer.caller
    /\ initialMessage' = peer.initialMessage
    /\ state' = peer.state
    /\ apc' = peer.apc
    /\ agentOutcome' = peer.agentOutcome
    /\ modelCalls' = peer.modelCalls
    /\ dispatches' = peer.dispatches
    /\ responseKind' = peer.responseKind
    /\ response' = peer.response
    /\ toolCall' = peer.toolCall
    /\ UNCHANGED <<env, manager, run, bounds>>

CallsNext == AgentNext \/ CallRun \/ Resume
SpecCalls == InitCalls /\ [][CallsNext]_vars

\* an Autonomous Loop run and the Agent Loop runs it makes
Init == InitAutonomous
Next == AgentNext \/ AutoNext
Spec == Init /\ [][Next]_vars

(***************************************************************************)
(* parseToolCall on its own: the response carries one of the documents in  *)
(* one of the four surface forms, and the step applies parseToolCall.      *)
(***************************************************************************)
SurfaceForms == {"bare", "json-block", "block", "embedded"}
Sure == <<"S", "u", "r", "e", ":", " ">>
Ok == <<" ", "o", "k">>
Braces == <<" ", "{", "x", "}">>
NewLine == <<"\n">>

\* what may precede and follow the document in each form
Surroundings(form) ==
    IF form = "bare" THEN {<<>>, NewLine} \X {<<>>, NewLine}
    ELSE IF form = "embedded" THEN {Sure} \X {<<>>, Ok, Braces}
    ELSE {<<>>, Sure} \X {<<>>, Ok}

\* the text that carries the document in the form
Written(form, document, before, after) ==
    IF form = "json-block"
    THEN before \o JsonFence \o NewLine \o document \o NewLine \o Fence
         \o after
    ELSE IF form = "block"
    THEN before \o Fence \o NewLine \o document \o NewLine \o Fence \o after
    ELSE before \o document \o after

SurfaceInputs ==
    UNION {{[form |-> form, document |-> document,
             text |-> Written(form, document.text, around[1], around[2])] :
                document \in JsonDocuments, around \in Surroundings(form)} :
           form \in SurfaceForms}

\* a text JSON.parse rejects
BrokenText == <<"{", "o", "o", "p", "s">>
\* the documents written into responses that carry two of them
PairedTexts ==
    {RespWriteFile.text, RespListFiles.text, LacksArgsText, BrokenText}
\* responses that carry two documents, each in a form of its own, the
\* first above the second
CombinedInputs ==
    {[forms |-> forms, documents |-> documents,
      text |-> Written(forms[1], documents[1], <<>>, <<>>) \o NewLine
               \o Written(forms[2], documents[2], <<>>, <<>>)] :
        forms \in {pair \in (SurfaceForms \ {"bare"})
                               \X (SurfaceForms \ {"bare"}) :
                       pair[1] # pair[2]},
        documents \in PairedTexts \X PairedTexts}

InitParse ==
    /\ config = [tools |-> KnownTools, maxIterations |-> Num(1),
                 devServerCommand |-> "", testUrl |-> "",
                 successCriteria |-> <<>>]
    /\ goal = <<>>
    /\ caller = "direct"
    /\ initialMessage \in Messages
    /\ previousMessages = <<>>
    /\ state = InitialState(initialMessage, previousMessages)
    /\ apc = "parse"
    /\ agentOutcome = NotRun
    /\ outer = OuterLocals
    /\ upc = "none"
    /\ pending = Running
    /\ outcome = Running
    /\ modelCalls = 0
    /\ parsedCalls = 0
    /\ detours = 0
    /\ dispatches = <<>>
    /\ responseKind = "none"
    /\ response \in {Recognise(input.text) :
                         input \in SurfaceInputs \cup CombinedInputs}
    /\ toolCall = NoToolCall
    /\ stops = 0
    /\ teardown = "none"
    /\ servers = {}
    /\ peer = NoCall
    /\ history = [finals |-> {}, judged |-> {}, inspected |-> {},
                  failedAt |-> "none"]

\* const toolCall = this.parseToolCall(response)
ParseResponse ==
    /\ apc = "parse"
    /\ toolCall' = parseToolCall(response)
    /\ apc' = "parsed"
    /\ UNCHANGED <<caller, initialMessage, state, agentOutcome, modelCalls,
                   dispatches, responseKind, response>>
    /\ UNCHANGED <<env, peer, manager, run, bounds>>

SpecParse == InitParse /\ [][ParseResponse]_vars

(***************************************************************************)
(* Properties of a direct Agent Loop run (SpecAgent).                      *)
(***************************************************************************)
Ended == apc \in {"returned", "thrown"}
ThrewBudgetExceeded ==
    apc = "thrown" /\ agentOutcome = AgentThrew(BudgetExceeded)

LogsPairedAtModelCall ==
    apc = "awaitModel" =>
        /\ Len(state.toolResults) = Len(state.toolCalls)
        /\ Len(dispatches) = Len(state.toolCalls)
        /\ \A i \in 1..Len(state.toolCalls) :
               /\ dispatches[i].name = state.toolCalls[i].name
               /\ ~dispatches[i].completion.threw
               /\ dispatches[i].completion.envelope = state.toolResults[i]

\* a model call in flight after a failed and a successful dispatch
LogsPairedWitness ==
    /\ apc = "awaitModel"
    /\ Len(state.toolCalls) = 2
    /\ ~state.toolResults[1].success
    /\ state.toolResults[2].success

LastTurn == state.messages[Len(state.messages)]
LastToolCall == state.toolCalls[Len(state.toolCalls)]

\* C3 as stated: a round in which a tool invocation was parsed never ends
\* the run.
ToolRoundNeverEndsRun == Ended => responseKind # "tool-call"

\* C3, amended: a round in which a tool invocation with a printable name
\* was parsed appends the result or the error as a system turn and never
\* returns; if the round counter is below the budget the next step issues
\* a further model call on the extended conversation, and otherwise the
\* run fails with the budget-exceeded error.
ToolRoundContinuesWithinBudget ==
    /\ [](responseKind = "tool-call" /\ apc = "while" =>
            /\ LastTurn.role = "system"
            /\ LastTurn.content.kind \in {"tool-executed", "tool-failed"}
            /\ LastTurn.content.tool = StringOf(LastToolCall.name))
    /\ [](responseKind = "tool-call" /\ Ended =>
            /\ ThrewBudgetExceeded
            /\ state.iteration = roundBudget
            /\ LastTurn.role = "system")
    /\ [][responseKind = "tool-call" /\ apc = "while"
            /\ state.iteration < roundBudget =>
               /\ apc' = "awaitModel"
               /\ modelCalls' = modelCalls + 1
               /\ state'.messages = state.messages]_vars

\* a further model call issued after a tool round whose dispatch failed
ToolRoundContinuesWitness ==
    /\ apc = "awaitModel"
    /\ modelCalls = 2
    /\ Len(state.toolCalls) = 1
    /\ LastTurn.role = "system"
    /\ LastTurn.content.kind = "tool-executed"
    /\ ~LastTurn.content.result.success

\* C4: executing a name with no registered capability returns an envelope
\* with success false and a non-empty error text; it does not throw and
\* invokes no capability.
UnregisteredNameFails ==
    \A i \in 1..Len(dispatches) :
        ~Registered(config.tools, dispatches[i].name) =>
            /\ ~dispatches[i].completion.threw
            /\ DOMAIN dispatches[i].completion.envelope = {"success", "error"}
            /\ dispatches[i].completion.envelope.success = FALSE
            /\ dispatches[i].completion.envelope.error # ""
            /\ dispatches[i].completion.invoked = {}

\* a dispatch of a name that is not a string, or not in the registry
UnregisteredNameWitness ==
    \E i, j \in 1..Len(dispatches) :
        /\ dispatches[i].name.type # "string"
        /\ dispatches[j].name.type = "string"
        /\ dispatches[j].name.str \notin config.tools

\* C5: executing a registered name invokes that capability and returns an
\* envelope with success true and the value the capability produced, or
\* with success false and the text of what it threw; the envelope never
\* carries both a result and an error, and execute does not throw.
RegisteredNameEnvelope ==
    \A i \in 1..Len(dispatches) :
        Registered(config.tools, dispatches[i].name) =>
            LET capability == dispatches[i].capability
                done == dispatches[i].completion
            IN /\ ~done.threw
               /\ done.invoked = {dispatches[i].name.str}
               /\ capability.kind = "value" =>
                      done.envelope = [success |-> TRUE,
                                       result |-> capability.value]
               /\ capability.kind = "throw" =>
                      /\ DOMAIN done.envelope = {"success", "error"}
                      /\ done.envelope.success = FALSE
                      /\ done.envelope.error =
                             (IF capability.error.isError
                              THEN capability.error.message
                              ELSE capability.error.value.str)

\* a registered capability that produced a value and one that threw a
\* value that is not an Error
RegisteredNameWitness ==
    \E i, j \in 1..Len(dispatches) :
        /\ Registered(config.tools, dispatches[i].name)
        /\ dispatches[i].capability.kind = "value"
        /\ Registered(config.tools, dispatches[j].name)
        /\ dispatches[j].capability.kind = "throw"
        /\ ~dispatches[j].capability.error.isError

(***************************************************************************)
(* Properties of an Autonomous Loop run (Spec).                            *)
(***************************************************************************)
RunEnded == upc = "done"
RunReturned == RunEnded /\ outcome.status = "returned"
RunThrew == RunEnded /\ outcome.status = "thrown"
ProcessStarted == outer.devServerPid # Null

\* C6 as stated: in every run in which setup started a process the stop
\* capability is dispatched exactly once, whatever the exit path.
StopDispatchedOnceIfStarted == (RunEnded /\ ProcessStarted) => stops = 1

\* C6, amended: in every run in which setup started a process and a stop
\* capability is registered, the teardown dispatches the stop capability
\* exactly once on every exit path; without a registered stop capability,
\* or when no process was started, it is not dispatched.
StopDispatchedOnceIfRegistered ==
    /\ stops <= 1
    /\ RunEnded =>
           stops = (IF ProcessStarted /\ "server.stop" \in config.tools
                    THEN 1 ELSE 0)
    /\ stops = 1 => upc \in {"awaitStop", "done"}

\* the stop capability dispatched after an error left a cycle body
StopDispatchedWitness ==
    /\ RunThrew
    /\ ProcessStarted
    /\ outer.iteration > 0
    /\ stops = 1

\* the errors the start capability, the sessions and the browser
\* capabilities can throw
CollaboratorErrors ==
    {c.error : c \in {o \in StartOutcomes \cup OpenOutcomes
                             \cup ScreenshotOutcomes \cup ConsoleOutcomes :
                         o.kind = "throw"}}
    \cup {BudgetExceeded, ModelFailure, NotPrimitive}
OutcomeKeys == {"success", "iterations", "finalMessage", "toolCalls"}

\* C7 as stated: run never throws; it ends by returning an outcome.
RunNeverThrows == RunEnded => outcome.status = "returned"

\* C7, amended: run does not throw because the cycle budget is used up or
\* because the stop capability fails; an error thrown during setup or in a
\* cycle body (by the start capability, an Agent Loop session or a
\* validation capability) propagates to the caller after teardown, and in
\* every other case run returns an outcome {success, iterations,
\* finalMessage, toolCalls}.
RunThrowsOnlyWhatItsBodyThrew ==
    RunEnded =>
        IF history.failedAt = "none"
        THEN /\ outcome.status = "returned"
             /\ DOMAIN outcome.result = OutcomeKeys
        ELSE /\ outcome.status = "thrown"
             /\ outcome.error \in CollaboratorErrors

\* the exhaustion outcome returned although the stop capability failed
RunReturnsWitness ==
    /\ RunReturned
    /\ ~outcome.result.success
    /\ teardown = "stop-failed"

KeywordMessages == {TxtDone, TxtComplete, TxtUnfinished}
KeywordSeen == history.finals \cap KeywordMessages # {}

\* C8 as stated: when the final message of cycle k contains a completion
\* keyword in any letter case, the run ends at cycle k returning success
\* with iterations = k.
KeywordEndsRunWithSuccess ==
    (RunEnded /\ KeywordSeen) =>
        /\ outcome.status = "returned"
        /\ outcome.result.success
        /\ outcome.result.iterations = outer.iteration

\* C8, amended: when the final message of cycle k contains a completion
\* keyword in any letter case, no cycle k+1 is started, and the run ends
\* at cycle k returning success with iterations = k unless k is a
\* validation cycle whose validation step throws, in which case that error
\* propagates.
KeywordEndsRunUnlessValidationThrows ==
    /\ []((RunEnded /\ KeywordSeen) =>
            \/ /\ outcome.status = "returned"
               /\ outcome.result.success
               /\ outcome.result.iterations = outer.iteration
            \/ /\ outcome.status = "thrown"
               /\ history.failedAt = "validation"
               /\ outer.iteration % ValidationPeriod = 0)
    /\ [][KeywordSeen => outer'.iteration = outer.iteration]_vars

\* the second cycle ends the run with an upper-case keyword
KeywordEndsRunWitness ==
    /\ RunReturned
    /\ outcome.result.success
    /\ outcome.result.iterations = 2
    /\ outcome.result.finalMessage = TxtComplete

AffirmativeMessages == {TxtYes}
NoSuccessSignal ==
    /\ ~KeywordSeen
    /\ history.judged \cap AffirmativeMessages = {}
ExhaustionOutcome ==
    /\ outcome.status = "returned"
    /\ ~outcome.result.success
    /\ outcome.result.iterations = cycleBudget
    /\ outer.iteration = cycleBudget

StopFailureKeepsOutcome ==
    /\ RunEnded => outcome = pending
    /\ RunEnded => outcome.status \in {"returned", "thrown"}
    /\ ~RunEnded => outcome = Running

\* the stop capability failed while an error was propagating
StopFailureWitness ==
    /\ RunThrew
    /\ teardown = "stop-failed"
    /\ history.failedAt = "validation"

(***************************************************************************)
(* Properties of the guards and the results of a direct Agent Loop run     *)
(* (SpecAgent).                                                            *)
(***************************************************************************)
\* the round in progress received non-empty text that is no tool call and
\* announces an action, on a user message that contains an action verb
Announced ==
    /\ apc # "awaitModel"
    /\ ~parseToolCall(response).found
    /\ trim(response.text) # <<>>
    /\ describesAction[response.text]
    /\ userRequestedAction(initialMessage)
NoActionToolDispatched ==
    \A i \in 1..Len(state.toolCalls) :
        state.toolCalls[i].name \notin {Str(name) : name \in ActionTools}
LastToolGathersInformation ==
    \/ Len(state.toolCalls) = 0
    \/ LastToolCall.name \in {Str(name) : name \in InfoGatheringTools}

\* C11 as stated: an announcing response to a user message with an action
\* verb, with no action-class tool in the tool-call log whatever other tools
\* were dispatched, does not end the run as a final answer: the corrective
\* turn is appended.
AnnouncementNeverFinal ==
    Announced /\ NoActionToolDispatched =>
        /\ apc # "returned"
        /\ LastTurn = ExecuteNotice(initialMessage)

\* C11, amended: an announcing response to a user message with an action
\* verb, when no tool was dispatched in the session or the most recently
\* dispatched tool is list_files or read_file, does not end the run as a
\* final answer: the corrective turn is appended, and another round follows
\* if the round counter is below the budget, while otherwise the run fails
\* with the budget-exceeded error.
AnnouncementAfterInformationNeverFinal ==
    /\ [](Announced /\ LastToolGathersInformation =>
            /\ responseKind = "action-description"
            /\ LastTurn = ExecuteNotice(initialMessage)
            /\ \/ apc = "while"
               \/ ThrewBudgetExceeded /\ state.iteration = roundBudget)
    /\ [][Announced /\ LastToolGathersInformation /\ apc = "while"
            /\ state.iteration < roundBudget =>
               /\ apc' = "awaitModel"
               /\ state'.iteration = state.iteration + 1
               /\ state'.messages = state.messages]_vars

\* the corrective turn appended after list_files was dispatched
AnnouncementAfterInformationWitness ==
    /\ Announced
    /\ Len(state.toolCalls) = 1
    /\ LastToolCall.name = Str("list_files")
    /\ apc = "while"
    /\ state.iteration < roundBudget
    /\ LastTurn = ExecuteNotice(initialMessage)

\* the response of the round in progress is non-empty text that is no tool
\* call and triggers no corrective guard
PlainTextReceived ==
    /\ apc # "awaitModel"
    /\ ~parseToolCall(response).found
    /\ trim(response.text) # <<>>
    /\ Classify(response.text, userRequestedAction(initialMessage),
                state.toolCalls) = "final"

\* C12: when the first k responses were tool calls, all dispatched, and
\* response k+1 is non-empty text that triggers no corrective guard, the
\* run returns that text verbatim as finalMessage, the k invocations in
\* dispatch order as toolCalls, and k+1 as iterations.
ToolCallsThenTextReturns ==
    (PlainTextReceived /\ Len(dispatches) = modelCalls - 1) =>
        /\ apc = "returned"
        /\ agentOutcome.status = "returned"
        /\ agentOutcome.result.finalMessage = response.text
        /\ agentOutcome.result.iterations = Len(dispatches) + 1
        /\ Len(agentOutcome.result.toolCalls) = Len(dispatches)
        /\ \A i \in 1..Len(dispatches) :
               agentOutcome.result.toolCalls[i] =
                   [name |-> dispatches[i].name,
                    arguments |-> dispatches[i].arguments]

\* one write call followed by "File created."
ToolCallsThenTextWitness ==
    /\ apc = "returned"
    /\ Len(dispatches) = 1
    /\ dispatches[1].name = Str("write_file")
    /\ response.text = TxtCreated
    /\ agentOutcome.result.finalMessage = TxtCreated
    /\ agentOutcome.result.iterations = 2
    /\ Len(agentOutcome.result.toolCalls) = 1

\* the round in progress has taken its response
Received == apc # "awaitModel" /\ responseKind # "none"
\* none of the four extraction attempts yields a value that has both a
\* tool and an args property
UnderNoForm(reply) ==
    \A candidate \in {reply.plain, reply.jsonCodeBlockMatch,
                      reply.codeBlockMatch, reply.jsonObjectMatch} :
        \/ candidate.kind # "value"
        \/ ~Truthy(candidate.tool)
        \/ ~Truthy(candidate.args)
GuardOf(reply) ==
    Classify(reply.text, userRequestedAction(initialMessage),
             state.toolCalls)
CorrectiveTurns ==
    [empty |-> EmptyResponseNotice,
     action_description |-> ExecuteNotice(initialMessage),
     terse |-> SummaryNotice]

\* C13 as stated: a response that parses under none of the four surface
\* forms is classified as the final answer: the run returns in that round
\* with the text as finalMessage.
UnparsedTextIsFinal ==
    Received /\ UnderNoForm(response) =>
        /\ apc = "returned"
        /\ agentOutcome.result.finalMessage = response.text

\* C13, amended: a response that parses under none of the four surface
\* forms, an object that names a tool and lacks args included, is never
\* dispatched; the run returns in that round with the text as finalMessage
\* unless the text is empty or blank or triggers the action-description or
\* the terse-completion guard, and then the guard's corrective turn is
\* appended and the run goes back to the loop test.
UnparsedTextIsFinalUnlessGuarded ==
    Received /\ UnderNoForm(response) =>
        \E guard \in {GuardOf(response)} :
            /\ toolCall = NoToolCall
            /\ responseKind = guard
            /\ apc # "awaitTool"
            /\ Len(dispatches) = Len(state.toolCalls)
            /\ IF guard = "final"
               THEN /\ apc = "returned"
                    /\ agentOutcome.status = "returned"
                    /\ agentOutcome.result.finalMessage = response.text
                    /\ agentOutcome.result.iterations = modelCalls
                    /\ LastTurn = AssistantTurn(response.text)
               ELSE /\ \/ apc = "while"
                       \/ ThrewBudgetExceeded /\ state.iteration = roundBudget
                    /\ LastTurn =
                         IF guard = "empty" THEN CorrectiveTurns.empty
                         ELSE IF guard = "terse" THEN CorrectiveTurns.terse
                         ELSE CorrectiveTurns.action_description

\* with a budget of three, the object that lacks args is returned as the
\* final answer of round one
UnparsedTextIsFinalWitness ==
    /\ roundBudget = 3
    /\ response = RespLacksArgs
    /\ apc = "returned"
    /\ modelCalls = 1
    /\ dispatches = <<>>
    /\ agentOutcome.result.finalMessage = LacksArgsText
    /\ agentOutcome.result.iterations = 1

\* C15: the round counter equals the number of model calls issued so far
\* and never exceeds the round budget; it changes only when a round begins,
\* and then by exactly one; the iterations of a returned result is the
\* counter and lies in 1..budget.
RoundCounterCountsModelCalls ==
    /\ [](/\ state.iteration = modelCalls
          /\ state.iteration \in 0..roundBudget
          /\ state.maxIterations = roundBudget)
    /\ [](apc = "returned" =>
            /\ agentOutcome.result.iterations = state.iteration
            /\ agentOutcome.result.iterations \in 1..roundBudget)
    /\ [][\/ state'.iteration = state.iteration
          \/ /\ state'.iteration = state.iteration + 1
             /\ modelCalls' = modelCalls + 1
             /\ apc = "while"
             /\ apc' = "awaitModel"]_vars

\* a result returned in the last round the budget allows
RoundCounterWitness ==
    /\ apc = "returned"
    /\ roundBudget = MaxBudget
    /\ modelCalls = MaxBudget
    /\ agentOutcome.result.iterations = MaxBudget

\* C18 as stated: the only failure a run surfaces to its caller is budget
\* exhaustion.
RunThrowsOnlyBudgetExceeded == apc = "thrown" => ThrewBudgetExceeded

\* C18, amended: a capability that was not found or that threw, and a
\* response that is no well-formed tool call, never make the run throw:
\* the dispatch is answered with a system turn and the run goes back to the
\* loop test, and the text is taken by a guard or as the final answer.  A
\* run throws on budget exhaustion, on a failure of the model call, and on a
\* parsed tool name that cannot be converted to a string.
RunThrowsOnlyThreeFailures ==
    /\ [](apc = "thrown" =>
            /\ agentOutcome.status = "thrown"
            /\ \/ /\ agentOutcome.error = BudgetExceeded
                  /\ state.iteration = roundBudget
               \/ /\ agentOutcome.error = ModelFailure
                  /\ response = NoResponse
               \/ /\ agentOutcome.error = NotPrimitive
                  /\ toolCall.found
                  /\ ~Printable(toolCall.name)
                  /\ Len(dispatches) < Len(state.toolCalls))
    /\ [](Received /\ ~toolCall.found /\ apc = "thrown" =>
            ThrewBudgetExceeded)
    /\ [][apc = "awaitTool" =>
            /\ apc' = "while"
            /\ agentOutcome' = agentOutcome
            /\ Len(dispatches') = Len(dispatches) + 1
            /\ state'.messages[Len(state'.messages)].role = "system"
            /\ Len(state'.messages) = Len(state.messages) + 1]_vars

\* a run that went on after a capability was not found and another threw
RunSurvivesDispatchFailuresWitness ==
    /\ apc \in {"while", "awaitModel", "returned"}
    /\ Len(dispatches) = 2
    /\ dispatches[1].completion.invoked = {}
    /\ ~dispatches[1].completion.envelope.success
    /\ dispatches[2].capability.kind = "throw"
    /\ ~dispatches[2].completion.envelope.success

\* C20 as stated: the action-description corrective turn is injected only
\* while no action-class tool has been dispatched in the session.
CorrectiveTurnOnlyBeforeActionTools ==
    responseKind = "action-description" => NoActionToolDispatched

\* C20, amended: the action-description corrective turn is injected only
\* when no tool was dispatched in the session or the most recently
\* dispatched tool is list_files or read_file, whatever was dispatched
\* before it; an announcing response that follows the dispatch of an
\* action-class tool as the most recent one is never answered with it.
CorrectiveTurnOnlyAfterInformation ==
    /\ responseKind = "action-description" /\ apc # "awaitModel" =>
           /\ LastToolGathersInformation
           /\ describesAction[response.text]
           /\ userRequestedAction(initialMessage)
    /\ (/\ Announced
        /\ Len(state.toolCalls) > 0
        /\ LastToolCall.name \in {Str(name) : name \in ActionTools}) =>
           /\ responseKind # "action-description"
           /\ LastTurn # ExecuteNotice(initialMessage)

\* the corrective turn injected after write_file and then list_files were
\* dispatched
CorrectiveTurnAfterActionToolWitness ==
    /\ responseKind = "action-description"
    /\ apc = "while"
    /\ Len(dispatches) = 2
    /\ dispatches[1].name = Str("write_file")
    /\ dispatches[2].name = Str("list_files")
    /\ LastTurn = ExecuteNotice(initialMessage)

(***************************************************************************)
(* Properties of parseToolCall (SpecParse).                                *)
(***************************************************************************)
\* the document names a registered capability and has an argument mapping
NamesCapability(document) ==
    /\ document.value.tool.type = "string"
    /\ document.value.tool.str \in KnownTools
    /\ document.value.args.type = "object"

\* C14 as stated: a response that carries a capability name and an
\* argument mapping in any of the four surface forms parses to a tool
\* invocation with exactly that name and exactly those arguments.
SurfaceFormYieldsInvocation ==
    apc = "parsed" =>
        \A input \in SurfaceInputs :
            input.text = response.text /\ NamesCapability(input.document) =>
                toolCall = ToolCall(input.document.value.tool,
                                    input.document.value.args)

\* what holds of the code: the bare form and the two fenced forms parse;
\* the embedded form parses when "tool" precedes "args" in the object and
\* no closing brace follows the object
EmbeddedFormYieldsInvocationIfToolFirst ==
    apc = "parsed" =>
        \A input \in SurfaceInputs :
            /\ input.text = response.text
            /\ NamesCapability(input.document)
            /\ input.form = "embedded" =>
                   /\ input.document.text # ArgsFirstText
                   /\ LastIndexOf(input.text, <<"}">>)
                        = Len(Sure) + Len(input.document.text)
            => toolCall = ToolCall(input.document.value.tool,
                                   input.document.value.args)

\* the object embedded in prose with its args property first, taken for
\* plain text
EmbeddedArgsFirstWitness ==
    /\ apc = "parsed"
    /\ response.text = Sure \o ArgsFirstText
    /\ toolCall = NoToolCall

(***************************************************************************)
(* Properties of validation, of the started process and of the Session     *)
(* State in an Autonomous Loop run (Spec).                                 *)
(***************************************************************************)
ValidationSteps ==
    {"awaitOpen", "awaitScreenshot", "awaitConsole", "awaitAnalysis",
     "awaitCheck"}
\* cycle k validates: a test URL is configured, k is a multiple of three
\* and the three browser capabilities are registered
ValidationCycle(k) ==
    /\ config.testUrl # ""
    /\ k % ValidationPeriod = 0
    /\ {"browser.open", "browser.screenshot", "browser.console_logs"}
         \subseteq config.tools
KeywordSuccess ==
    Return([success |-> TRUE,
            iterations |-> outer.iteration,
            finalMessage |-> outer.agentResult.finalMessage,
            toolCalls |-> outer.toolCalls])

\* C19 as stated: once the final message of a cycle contains a completion
\* keyword, no browser capability and no inspection or judging session runs
\* after that cycle's session, and the run returns that message.
KeywordEndsRunBeforeValidation ==
    /\ upc \in ValidationSteps => ~saysDone(outer.agentResult.finalMessage)
    /\ (RunReturned /\ outcome.result.success /\ KeywordSeen) =>
           outcome.result.finalMessage \in KeywordMessages

\* C19, amended: the completion keywords are tested after validation.  On
\* a cycle that does not validate, a final message with a keyword ends the
\* run at once with that message, no browser capability and no further
\* session in between.  A cycle that validates runs the browser
\* capabilities and the inspection session first, keyword or not; the
\* keyword then ends the run with the cycle's message only if validation
\* neither threw nor was judged affirmative.
KeywordEndsRunAfterValidation ==
    /\ [](upc \in ValidationSteps => ValidationCycle(outer.iteration))
    /\ [][upc = "awaitMain" /\ apc = "returned" =>
            IF ValidationCycle(outer.iteration)
            THEN upc' = "awaitOpen"
            ELSE /\ upc' = "doneCheck"
                 /\ outer'.analysisResult = NoAgentResult
                 /\ outer'.agentResult = agentOutcome.result]_vars
    /\ [][upc = "doneCheck" /\ saysDone(outer.agentResult.finalMessage) =>
            /\ upc' = "finally"
            /\ pending' = KeywordSuccess]_vars
    /\ [](RunReturned /\ outcome.result.success =>
            \/ /\ outcome.result.finalMessage \in history.finals
               /\ saysDone(outcome.result.finalMessage)
            \/ /\ ValidationCycle(outcome.result.iterations)
               /\ outcome.result.finalMessage
                    = outer.analysisResult.finalMessage
               /\ history.judged \cap AffirmativeMessages # {})

\* with validation configured, a keyword in the final message of cycle two
\* ended the run with that message and without an inspection
KeywordEndsRunAtOnceWitness ==
    /\ RunReturned
    /\ config.testUrl # ""
    /\ BrowserTools \subseteq config.tools
    /\ outcome.result.success
    /\ outcome.result.iterations = 2
    /\ outcome.result.finalMessage = TxtComplete
    /\ outer.analysisResult = NoAgentResult
    /\ history.judged = {}

\* the latest dispatch of the session in progress
LastDispatch == dispatches[Len(dispatches)]

\* C16: while the run that started a process is executing, the process is
\* running: until the teardown's stop capability completes, nothing has
\* stopped it, in particular no tool invocation a session of the run
\* dispatched.
ProcessStoppedOnlyByTeardown ==
    (ProcessStarted /\ ~RunEnded) => outer.devServerPid.num \in servers

\* a session of the run dispatched the stop capability on the pid of the
\* process the run started, and the manager stopped the process while
\* the cycle was in progress
SessionStoppedProcessWitness ==
    /\ ProcessStarted
    /\ upc = "awaitMain"
    /\ dispatches # <<>>
    /\ LastDispatch.name = Str("server.stop")
    /\ LastDispatch.completion.envelope.success
    /\ outer.devServerPid.num \notin servers

(***************************************************************************)
(* Properties of two run calls on one AgentLoop (SpecCalls).               *)
(***************************************************************************)
\* the locals of a call hold what its own rounds produced and nothing
\* else: the turns start with the instructions and the call's own message,
\* the round counter counts the call's model calls, and the invocation
\* and result logs are those of the call's dispatches
OwnHistory(call) ==
    /\ call.state.iteration = call.modelCalls
    /\ Len(call.state.messages) >= 2
    /\ call.state.messages[1] = SystemInstructions
    /\ \A i \in 2..Len(call.state.messages) :
           call.state.messages[i].role = "user"
               <=> (i = 2 /\ call.state.messages[i]
                                 = UserTurn(call.initialMessage))
    /\ Len(call.dispatches) <= Len(call.state.toolCalls)
    /\ Len(call.state.toolCalls) <= Len(call.dispatches) + 1
    /\ \A i \in 1..Len(call.dispatches) :
           /\ call.dispatches[i].name = call.state.toolCalls[i].name
           /\ call.dispatches[i].arguments
                  = call.state.toolCalls[i].arguments
    /\ Len(call.state.toolResults) <= Len(call.dispatches)

\* a step in which the second call is made
SecondCallMade == peer.apc = "idle" /\ peer'.apc # "idle"
\* the state the call made in this step begins with
StartsFresh ==
    /\ state'.iteration = 0
    /\ state'.toolCalls = <<>>
    /\ state'.toolResults = <<>>
    /\ state'.messages = <<SystemInstructions, UserTurn(peer.initialMessage)>>
\* control passes to the other call, and each call's locals are kept
ControlPasses ==
    /\ peer' = Locals
    /\ (peer.apc # "idle") => (Locals' = peer)

\* C17: the Session State of a run call is created fresh when the call
\* is made (round counter 0, empty invocation and result logs, the turns
\* seeded from the call's message alone) and is changed only by the steps
\* of that call: when two calls on one AgentLoop follow each other or
\* interleave at their awaits, a step of one call leaves the other call's
\* turns, logs and round counter as they were, and passing control
\* changes neither call's.
SessionStateOwnedByItsCall ==
    /\ [](OwnHistory(Locals) /\ (peer.apc # "idle" => OwnHistory(peer)))
    /\ [][(SecondCallMade => StartsFresh)
           /\ (peer' # peer => ControlPasses)]_vars

\* both calls are in the middle of their runs: one waits for its tool
\* dispatch in its second round with two invocations logged, the other is
\* in its second round with nothing logged
InterleavedCallsWitness ==
    /\ peer.apc = "awaitTool"
    /\ peer.state.iteration = 2
    /\ Len(peer.state.toolCalls) = 2
    /\ apc = "awaitModel"
    /\ state.iteration = 2
    /\ state.toolCalls = <<>>
    /\ state.messages # peer.state.messages

(***************************************************************************)
(* Properties of the terse-completion and empty-response guards            *)
(* (SpecAgent).                                                            *)
(***************************************************************************)
\* the round in progress received non-empty text that is no tool call and
\* is shorter than the threshold once trimmed
TerseReceived ==
    /\ apc # "awaitModel"
    /\ ~parseToolCall(response).found
    /\ trim(response.text) # <<>>
    /\ Len(trim(response.text)) < MinCompletionLength
\* the router was asked for an action-class tool during the session
ActionToolDispatched ==
    \E i \in 1..Len(dispatches) :
        dispatches[i].name \in {Str(name) : name \in ActionTools}

IsBlank(text) == \A i \in 1..Len(text) : text[i] \in WhiteSpace
\* the round in progress received a blank response
BlankReceived == Received /\ IsBlank(response.text)

\* C22: a blank response never ends the run: the corrective system turn is
\* appended and the loop goes on to its next round (to the budget-exceeded
\* error when the round was the last the budget allows), and every
\* finalMessage that run returns holds a character that is not white space.
BlankResponseNeverFinal ==
    /\ [](BlankReceived =>
            /\ LastTurn = EmptyResponseNotice
            /\ \/ apc = "while"
               \/ ThrewBudgetExceeded /\ state.iteration = roundBudget)
    /\ [](apc = "returned" =>
            /\ agentOutcome.status = "returned"
            /\ ~IsBlank(agentOutcome.result.finalMessage))
    /\ [][BlankReceived /\ apc = "while" /\ state.iteration < roundBudget =>
               /\ apc' = "awaitModel"
               /\ state'.iteration = state.iteration + 1
               /\ state'.messages = state.messages]_vars

\* a response of a space and a line feed was answered with the corrective
\* turn, after a tool had been dispatched
BlankResponseWitness ==
    /\ BlankReceived
    /\ response.text = TxtBlank
    /\ dispatches # <<>>
    /\ LastTurn = EmptyResponseNotice
    /\ apc = "while"
    /\ state.iteration < roundBudget

(***************************************************************************)
(* Properties of the validation cycles of an Autonomous Loop run (Spec).   *)
(***************************************************************************)
\* the main session of the current cycle returned and the cycle is over:
\* run is at the keyword test or beyond it
CycleOver ==
    /\ outer.iteration >= 1
    /\ upc \in {"doneCheck", "while", "finally", "awaitStop", "done"}
    /\ history.failedAt \notin {"setup", "session"}
\* what the three browser capabilities may throw
BrowserErrors ==
    {c.error : c \in {o \in OpenOutcomes \cup ScreenshotOutcomes
                              \cup ConsoleOutcomes : o.kind = "throw"}}
BrowserThrew ==
    /\ history.failedAt = "validation"
    /\ pending.status = "thrown"
    /\ pending.error \in BrowserErrors

\* a browser capability completes: the next one is invoked, the
\* inspection session is started after the last, or the error it threw
\* leaves the cycle
BrowserStep ==
    \/ upc = "awaitOpen" /\ upc' = "awaitScreenshot"
    \/ upc = "awaitScreenshot" /\ upc' = "awaitConsole"
    \/ upc = "awaitConsole" /\ upc' = "awaitAnalysis" /\ caller' = "analysis"
    \/ /\ upc' = "finally"
       /\ pending'.status = "thrown"
       /\ pending'.error \in BrowserErrors

\* C23 as stated: the inspection session runs at cycle k if and only if k
\* is a multiple of 3, a target URL is configured and the three browser
\* capabilities are registered; on every other cycle no browser capability
\* is invoked and no auxiliary session is run.
InspectionIffValidationCycle ==
    /\ upc \in ValidationSteps => ValidationCycle(outer.iteration)
    /\ \A k \in history.inspected : ValidationCycle(k)
    /\ (CycleOver /\ ValidationCycle(outer.iteration)) =>
           outer.iteration \in history.inspected

\* C23, amended: the inspection session runs at cycle k if and only if k
\* is a multiple of 3, a target URL is configured, the three browser
\* capabilities are registered, the main session of cycle k returned, and
\* the navigation, screenshot and console-log capabilities, invoked in that
\* order after the main session, all completed without throwing (a throw
\* ends the run with that error before the inspection session); on every
\* other cycle no browser capability is invoked and no auxiliary session
\* is run.
InspectionIffValidationCycleCompletes ==
    /\ [](upc \in ValidationSteps =>
            /\ ValidationCycle(outer.iteration)
            /\ history.failedAt = "none")
    /\ [](\A k \in history.inspected : k >= 1 /\ ValidationCycle(k))
    /\ []((caller \in {"analysis", "check"}) =>
            outer.iteration \in history.inspected)
    /\ []((CycleOver /\ ValidationCycle(outer.iteration)) =>
            (outer.iteration \in history.inspected) # BrowserThrew)
    /\ []((CycleOver /\ ~ValidationCycle(outer.iteration)) =>
            outer.iteration \notin history.inspected)
    /\ [][(upc \in {"awaitOpen", "awaitScreenshot", "awaitConsole"}) =>
            BrowserStep]_vars

\* the inspection session of cycle three is in progress
InspectionRunsWitness ==
    /\ upc = "awaitAnalysis"
    /\ caller = "analysis"
    /\ apc = "awaitModel"
    /\ outer.iteration = ValidationPeriod
    /\ history.inspected = {ValidationPeriod}

(***************************************************************************)
(* Properties of the order of the extraction attempts (SpecParse).         *)
(***************************************************************************)
\* the candidates of the four forms, in the order in which they are tried
Candidates ==
    <<response.plain, response.jsonCodeBlockMatch, response.codeBlockMatch,
      response.jsonObjectMatch>>
\* the candidate parsed to a value with a tool and an args property that
\* are not undefined
WellFormed(candidate) ==
    /\ candidate.kind = "value"
    /\ candidate.tool # Undefined
    /\ candidate.args # Undefined
\* the candidate was found and JSON.parse rejected it
Broken(candidate) == candidate = Malformed

\* C25: the invocation parseToolCall returns is that of the first form, in
\* the order bare object, json-tagged fence, generic fence, embedded
\* object, whose candidate parses to a value with a tool and an argument
\* mapping: a malformed candidate or one without arguments in an earlier
\* form lets the later forms be tried, a later form does not override an
\* earlier one, and without such a candidate there is no invocation.  A
\* json-tagged fence written below a generic fence still comes first.
FirstFormWins ==
    apc = "parsed" =>
        /\ \A i \in 1..4 :
               (WellFormed(Candidates[i])
                   /\ \A j \in 1..(i - 1) : ~WellFormed(Candidates[j])) =>
               toolCall = ToolCall(Candidates[i].tool, Candidates[i].args)
        /\ (\A i \in 1..4 : ~WellFormed(Candidates[i])) =>
               toolCall = NoToolCall
        /\ \A input \in CombinedInputs :
               /\ input.text = response.text
               /\ input.forms = <<"block", "json-block">>
               /\ input.documents[2] \in {RespWriteFile.text,
                                          RespListFiles.text}
               => toolCall = ToolCall(JsonParse(input.documents[2]).tool,
                                      JsonParse(input.documents[2]).args)

\* the candidate of the json-tagged fence was malformed and the generic
\* fence, written above it, gave the invocation
FallsThroughWitness ==
    /\ apc = "parsed"
    /\ Broken(response.jsonCodeBlockMatch)
    /\ WellFormed(response.codeBlockMatch)
    /\ toolCall = ToolCall(response.codeBlockMatch.tool,
                           response.codeBlockMatch.args)

\* both fences held a document, and the json-tagged fence gave the
\* invocation although it was written below the generic fence
EarlierFormWitness ==
    /\ apc = "parsed"
    /\ WellFormed(response.jsonCodeBlockMatch)
    /\ WellFormed(response.codeBlockMatch)
    /\ response.jsonCodeBlockMatch # response.codeBlockMatch
    /\ toolCall = ToolCall(response.jsonCodeBlockMatch.tool,
                           response.jsonCodeBlockMatch.args)

\* the outcome of a run that an affirmative judgment ended
JudgedSuccess ==
    Return([success |-> TRUE,
            iterations |-> outer.iteration,
            finalMessage |-> outer.analysisResult.finalMessage,
            toolCalls |-> outer.toolCalls])
\* the inspection session returned, and what run does next
AfterInspection ==
    IF config.successCriteria # <<>>
    THEN /\ upc' = "awaitCheck"
         /\ caller' = "check"
         /\ initialMessage' = checkMessage(config.successCriteria,
                                           agentOutcome.result.finalMessage)
         /\ outer'.analysisResult = agentOutcome.result
    ELSE /\ upc' = "doneCheck"
         /\ caller' = "none"
\* the judging session returned, and what run does next
AfterJudgment ==
    IF agentOutcome.result.finalMessage \in AffirmativeMessages
    THEN upc' = "finally" /\ pending' = JudgedSuccess
    ELSE upc' = "doneCheck" /\ pending' = pending

FirstModelCall == modelCalls = 1 /\ apc = "awaitModel"
\* the positions of the prior turns whose role is not system
KeptPositions ==
    {i \in 1..Len(previousMessages) : previousMessages[i].role # "system"}

\* C26: at the first model call the turns are one system turn with the
\* fixed instructions, then the prior turns whose role is not system in
\* their original order, then the user turn with the new message; no
\* system turn of the prior history is among them.
FirstCallTurns ==
    FirstModelCall =>
        /\ Len(state.messages) = Cardinality(KeptPositions) + 2
        /\ state.messages[1] = SystemInstructions
        /\ state.messages[Len(state.messages)] = UserTurn(initialMessage)
        /\ \A i \in 2..Len(state.messages) :
               state.messages[i].role # "system"
        /\ \A i \in KeptPositions :
               state.messages[
                   1 + Cardinality({j \in KeptPositions : j <= i})]
                 = previousMessages[i]

\* the first model call of a run that was given the prior history
FirstCallTurnsWitness ==
    /\ FirstModelCall
    /\ previousMessages = PriorHistory
    /\ Len(state.messages) = 4
    /\ state.messages[3] = AssistantTurn(<<"h", "i">>)

(***************************************************************************)
(* Properties of the end of an Autonomous Loop run (Spec).                 *)
(***************************************************************************)
\* the session run awaits ended with the budget-exceeded failure
SessionExceededBudget ==
    /\ upc \in {"awaitMain", "awaitAnalysis", "awaitCheck"}
    /\ apc = "thrown"
    /\ agentOutcome = AgentThrew(BudgetExceeded)
\* the budget-exceeded failure of a session is leaving run
BudgetFailureLeaving ==
    pending.status = "thrown" /\ pending.error = BudgetExceeded

\* C27: when a session of an Autonomous Loop run, main or auxiliary, ends
\* with the budget-exceeded failure, the failure leaves the cycle at once;
\* from then on no session is started and no cycle begins: run goes
\* through its teardown and ends by throwing that failure.
BudgetFailureNotRetried ==
    /\ [][SessionExceededBudget =>
            /\ upc' = "finally"
            /\ pending' = Throw(BudgetExceeded)
            /\ caller' = "none"
            /\ outer' = outer]_vars
    /\ [](BudgetFailureLeaving =>
            /\ upc \in {"finally", "awaitStop", "done"}
            /\ caller = "none"
            /\ apc = "idle")
    /\ [][BudgetFailureLeaving =>
            /\ pending' = pending
            /\ outer'.iteration = outer.iteration
            /\ caller' = "none"]_vars
    /\ []((RunEnded /\ BudgetFailureLeaving) =>
            outcome = Throw(BudgetExceeded))

\* the session of the first cycle used up its rounds, and the run threw
\* although its cycle budget allowed further cycles
BudgetFailureWitness ==
    /\ RunThrew
    /\ outcome = Throw(BudgetExceeded)
    /\ history.failedAt = "session"
    /\ outer.iteration = 1
    /\ cycleBudget > 1

\* the session of a main cycle returned and run is about to resume
MainSessionReturned == upc = "awaitMain" /\ apc = "returned"
\* the trace grew by exactly the calls of the session's log, in its order
TraceTakesLog ==
    /\ Len(outer'.toolCalls) = Len(outer.toolCalls) + Len(state.toolCalls)
    /\ SubSeq(outer'.toolCalls, 1, Len(outer.toolCalls)) = outer.toolCalls
    /\ \A i \in 1..Len(state.toolCalls) :
           outer'.toolCalls[Len(outer.toolCalls) + i] =
               [name |-> state.toolCalls[i].name,
                args |-> state.toolCalls[i].arguments]

\* C29: the trace of an Autonomous Loop run is empty when run begins, grows only when
\* the session of a main cycle returns, and then by exactly the calls of
\* that session's log in their order (each as its name and arguments); the
\* return of an inspection or judging session, and every other step, leaves
\* it as it is; a run that returns hands back that trace.
TraceIsMainLogs ==
    /\ outer.toolCalls = <<>>
    /\ [][MainSessionReturned => TraceTakesLog]_vars
    /\ [][(~MainSessionReturned) => outer'.toolCalls = outer.toolCalls]_vars
    /\ [](RunReturned => outcome.result.toolCalls = outer.toolCalls)

\* an auxiliary session returns with a call in its log while the trace
\* holds the call of the main session before it
AuxiliaryCallWitness ==
    /\ upc \in {"awaitAnalysis", "awaitCheck"}
    /\ apc = "returned"
    /\ Len(state.toolCalls) >= 1
    /\ Len(outer.toolCalls) >= 1

(***************************************************************************)
(* The budgets taken from config.maxIterations (SpecBudget): direct Agent  *)
(* Loop runs and Autonomous Loop runs under configurations whose           *)
(* maxIterations is unset, zero, negative or positive.                     *)
(***************************************************************************)
BudgetValues == {Undefined, Num(0), Num(-1), Num(1)}
\* bare configurations with each value, one with a server and a budget of
\* one, and one with a page, a criteria and a budget that reaches the first
\* validation cycle
BudgetConfigs ==
    [tools : {KnownTools},
     maxIterations : BudgetValues,
     devServerCommand : {""},
     testUrl : {""},
     successCriteria : {<<>>}]
    \cup
    [tools : {KnownTools},
     maxIterations : {Num(1)},
     devServerCommand : {"npm run dev"},
     testUrl : {""},
     successCriteria : {<<>>}]
    \cup
    [tools : {KnownTools},
     maxIterations : {Num(ValidationPeriod)},
     devServerCommand : {""},
     testUrl : {"http://localhost:3000"},
     successCriteria : {<<"s", "h", "o", "w", "s", " ", "X">>}]

\* nothing has run yet
Unstarted ==
    /\ agentOutcome = NotRun
    /\ outer = OuterLocals
    /\ pending = Running
    /\ outcome = Running
    /\ modelCalls = 0
    /\ parsedCalls = 0
    /\ detours = 0
    /\ dispatches = <<>>
    /\ responseKind = "none"
    /\ response = NoResponse
    /\ toolCall = NoToolCall
    /\ stops = 0
    /\ teardown = "none"
    /\ servers = {}
    /\ peer = NoCall
    /\ previousMessages = <<>>
    /\ history = [finals |-> {}, judged |-> {}, inspected |-> {},
                  failedAt |-> "none"]

InitBudget ==
    /\ config \in BudgetConfigs
    /\ \/ /\ config.devServerCommand = ""
          /\ config.testUrl = ""
          /\ config.successCriteria = <<>>
          /\ goal = <<>>
          /\ caller = "direct"
          /\ initialMessage \in Messages
          /\ state = InitialState(initialMessage, <<>>)
          /\ apc = "while"
          /\ upc = "none"
       \/ /\ goal \in Goals
          /\ caller = "none"
          /\ initialMessage = <<>>
          /\ state = NoState
          /\ apc = "idle"
          /\ upc = "setup"
    /\ Unstarted

SpecBudget == InitBudget /\ [][Next]_vars

\* the configured value is unset or 0
BudgetDefaulted == config.maxIterations \in {Undefined, Num(0)}
\* the budgets the configured value stands for
ExpectedCycles ==
    IF BudgetDefaulted THEN DefaultCycleBudget ELSE config.maxIterations.num
ExpectedRounds ==
    IF BudgetDefaulted THEN DefaultRoundBudget ELSE config.maxIterations.num
AtLeastZero(n) == IF n < 0 THEN 0 ELSE n
\* a session is in progress or has just ended
SessionExists == apc # "idle"
SessionOver == apc \in {"returned", "thrown"}
\* the run returned because its loop condition failed
CyclesUsedUp == RunReturned /\ ~outcome.result.success

\* one value is both budgets, and an unset or zero value gives 20 and 10:
\* every session carries the round budget and throws the budget-exceeded
\* failure only after that many rounds; the cycles never exceed the cycle
\* budget and a run whose loop condition fails has used it up
BudgetsFromOneValue ==
    /\ SessionExists =>
           /\ state.maxIterations = ExpectedRounds
           /\ state.messages[1] =
                  Turn("system", [kind |-> "instructions",
                                  maxIterations |-> ExpectedRounds])
           /\ state.iteration <= AtLeastZero(ExpectedRounds)
    /\ (apc = "thrown" /\ agentOutcome.error \notin {ModelFailure, NotPrimitive})
           => /\ state.iteration = AtLeastZero(ExpectedRounds)
              /\ agentOutcome.error =
                     ErrorOf("Agent loop exceeded max iterations ("
                             \o ToString(ExpectedRounds) \o ")")
    /\ outer.iteration <= AtLeastZero(ExpectedCycles)
    /\ CyclesUsedUp =>
           /\ outcome.result.iterations = AtLeastZero(ExpectedCycles)
           /\ outcome.result.finalMessage =
                  "Reached maximum iterations ("
                  \o ToString(ExpectedCycles) \o ")"
\* a run that returns has made a cycle, a session that ends has made a round
NeverZero ==
    /\ RunReturned => outer.iteration >= 1
    /\ SessionOver => state.iteration >= 1

\* C30 as stated: the one maxIterations value is the cycle budget and the
\* round budget of every session, an unset or zero value gives 20 cycles
\* and 10 rounds, and no configuration gives a run that returns without a
\* cycle or a session that ends without a round.
BudgetsSharedNeverZero == BudgetsFromOneValue /\ NeverZero

\* C30: the one maxIterations value is the cycle budget and the round
\* budget of every session, and an unset or zero value gives 20 cycles and
\* 10 rounds; under a configuration whose maxIterations is not negative, a
\* run that returns has made at least one cycle and a session that ends
\* has made at least one round.
BudgetsSharedNeverZeroUnlessNegative ==
    /\ BudgetsFromOneValue
    /\ (BudgetDefaulted \/ config.maxIterations.num >= 0) => NeverZero

\* a run configured with maxIterations 0 returned after its twenty cycles,
\* each with a session whose round budget was ten
DefaultBudgetsWitness ==
    /\ config.maxIterations = Num(0)
    /\ CyclesUsedUp
    /\ outer.iteration = DefaultCycleBudget
    /\ outcome.result.iterations = DefaultCycleBudget

(***************************************************************************)
(* Termination of an Autonomous Loop run (SpecLive).  run is one async     *)
(* function: between two awaits it runs to completion, and at an await it  *)
(* resumes once the awaited model call or capability completes.  With      *)
(* every such completion eventually happening, a step that is possible is  *)
(* eventually taken.                                                       *)
(***************************************************************************)
\* runs with a page and a criteria: one with a server command, a stop
\* capability and a budget up to the first validation cycle; with a budget
\* of one cycle, one without the stop capability and one without a server
\* command
LiveConfigs ==
    {c \in [tools : {KnownTools, KnownTools \ {"server.stop"}},
            maxIterations : {Num(1), Num(ValidationPeriod)},
            devServerCommand : {"", "npm run dev"},
            testUrl : {"http://localhost:3000"},
            successCriteria : {<<"s", "h", "o", "w", "s", " ", "X">>}] :
        \/ /\ c.tools = KnownTools
           /\ c.devServerCommand # ""
           /\ c.maxIterations = Num(ValidationPeriod)
        \/ /\ c.tools # KnownTools
           /\ c.devServerCommand # ""
           /\ c.maxIterations = Num(1)
        \/ /\ c.tools = KnownTools
           /\ c.devServerCommand = ""
           /\ c.maxIterations = Num(1)}

InitLive ==
    /\ config \in LiveConfigs
    /\ goal \in Goals
    /\ caller = "none"
    /\ initialMessage = <<>>
    /\ state = NoState
    /\ apc = "idle"
    /\ upc = "setup"
    /\ Unstarted

SpecLive == InitLive /\ [][Next]_vars /\ WF_vars(Next)

StopRegistered == "server.stop" \in config.tools
StopDispatched == stops >= 1

\* C28 as stated: every run eventually ends, after at most M main cycles,
\* and when setup started a process its stop capability has been dispatched
\* by the time the run ends.
RunEndsStopped ==
    /\ <>RunEnded
    /\ [](outer.iteration <= cycleBudget)
    /\ []((RunEnded /\ ProcessStarted) => StopDispatched)

\* C28, amended: every run eventually ends, after at most M main cycles,
\* and when setup started a process and a stop capability is registered,
\* the stop capability has been dispatched by the time the run ends.
RunEndsStoppedIfRegistered ==
    /\ <>RunEnded
    /\ [](outer.iteration <= cycleBudget)
    /\ []((RunEnded /\ ProcessStarted /\ StopRegistered) => StopDispatched)

\* a run that used up its cycle budget has ended with its process's stop
\* capability dispatched
RunEndsStoppedWitness ==
    /\ RunReturned
    /\ ~outcome.result.success
    /\ outer.iteration = cycleBudget
    /\ cycleBudget = ValidationPeriod
    /\ ProcessStarted
    /\ StopDispatched

====
